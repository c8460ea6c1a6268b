------------------------- MODULE LinkCreationProofs -------------------------
(***************************************************************************)
(* Theorems of LinkCreation, for any number of requests, keys, bodies and  *)
(* dying threads.                                                          *)
(***************************************************************************)
EXTENDS LinkCreation, TLAPS, FiniteSetTheorems

\* A request that is being served has a key and a body.
Served(r) == pc[r] \notin {"idle", "done"}

\* A thread that inserted the row of its key and has not saved it yet.
Creating(r) == pc[r] \in {"call", "save"}

ServedInv ==
    \A r \in Request :
        /\ Served(r) => key[r] \in Key /\ payload[r] \in Payload
        /\ pc[r] = "idle" => ~url[r]
        /\ pc[r] = "save" => result[r] \in {"active", "building", "refused", "unknown"}

\* One thread creates a link, and until it saves it nobody has its URL.
CreatingInv ==
    /\ \A r \in Request : Creating(r) =>
          /\ link[key[r]] # NoLink
          /\ link[key[r]].payload = payload[r]
          /\ ~link[key[r]].url
    /\ \A r \in Request : pc[r] = "call" => charges[key[r]] = {}
    /\ \A r, q \in Request : Creating(r) /\ Creating(q) /\ r # q => key[r] # key[q]

\* The link the provider has, if any, is the one of the row.
ChargesInv(k) ==
    \/ charges[k] = {}
    \/ /\ link[k] # NoLink
       /\ \E q \in Request : charges[k] = {<<q, link[k].payload>>}

\* A URL in the table is that of a link the provider has, and only that is paid.
RowInv(k) ==
    link[k] # NoLink =>
        /\ link[k].url => charges[k] # {}
        /\ link[k].status = "PAID" => link[k].url

\* So is a URL in memory.
UrlInv(r) ==
    url[r] =>
        /\ key[r] \in Key
        /\ link[key[r]] # NoLink
        /\ link[key[r]].payload = payload[r]
        /\ charges[key[r]] # {}

CoreInv ==
    /\ CreatingInv
    /\ \A k \in Key : ChargesInv(k) /\ RowInv(k)
    /\ \A r \in Request : UrlInv(r)

IInv == TypeOK /\ ServedInv /\ CoreInv

-----------------------------------------------------------------------------
(* Types                                                                    *)

LEMMA InitIInv == Init => IInv
BY ConstantsAssumption
DEF Init, IInv, CoreInv, TypeOK, ServedInv, CreatingInv, ChargesInv, RowInv, UrlInv, Served, Creating,
    LinkStatus, PC, Result, Answer

LEMMA CreationStatusType ==
    \A reply \in {"active", "building", "refused", "unknown"} :
        CreationStatus(reply) \in LinkStatus \ {"PAID"}
<1>1. /\ CreationStatus("active") = "ACTIVE"
      /\ CreationStatus("building") = "CREATING"
      /\ CreationStatus("refused") = "CREATION_ERROR"
      /\ CreationStatus("unknown") = "CREATION_UNKNOWN"
  BY Zenon DEF CreationStatus
<1>2. QED BY <1>1 DEF LinkStatus

\* Every step keeps the types.
LEMMA TypeStep ==
    ASSUME TypeOK, ServedInv, [Next]_vars
    PROVE  TypeOK' /\ ServedInv'
<1> USE DEF Goto, Reply, PC, Result, Answer
<1>1. ASSUME NEW r \in Request, NEW k \in Key, NEW p \in Payload, Arrive(r, k, p)
      PROVE  TypeOK' /\ ServedInv'
  BY <1>1 DEF Arrive, TypeOK, ServedInv, Served, store, outbox
<1>2. ASSUME NEW r \in Request, Reject(r)
      PROVE  TypeOK' /\ ServedInv'
  BY <1>2 DEF Reject, TypeOK, ServedInv, Served, store, outbox, body
<1>3. ASSUME NEW r \in Request, NEW k \in Key, Resend(r, k)
      PROVE  TypeOK' /\ ServedInv'
  <2>1. link[k] \in LinkRow
    BY <1>3 DEF Resend, TypeOK
  <2>2. link[k].payload \in Payload
    BY <2>1 DEF LinkRow
  <2>3. QED BY <1>3, <2>2 DEF Resend, TypeOK, ServedInv, Served, store, outbox
<1>4. ASSUME NEW r \in Request, Check(r)
      PROVE  TypeOK' /\ ServedInv'
  <2>1. key[r] \in Key
    BY <1>4 DEF Check, ServedInv, Served
  <2>2. url' \in [Request -> BOOLEAN]
    <3>1. CASE link[key[r]] = NoLink
      BY <1>4, <3>1 DEF Check, TypeOK
    <3>2. CASE link[key[r]] # NoLink
      <4>1. link[key[r]] \in LinkRow
        BY <2>1, <3>2 DEF TypeOK
      <4>2. link[key[r]].url \in BOOLEAN
        BY <4>1 DEF LinkRow
      <4>3. url' = url \/ url' = [url EXCEPT ![r] = link[key[r]].url]
        BY <1>4 DEF Check
      <4>4. QED BY <4>2, <4>3 DEF TypeOK
    <3>3. QED BY <3>1, <3>2
  <2>3. QED BY <1>4, <2>2 DEF Check, TypeOK, ServedInv, Served, store, outbox, body
<1>5. ASSUME NEW r \in Request, Insert(r)
      PROVE  TypeOK' /\ ServedInv'
  <2>1. key[r] \in Key /\ payload[r] \in Payload
    BY <1>5 DEF Insert, ServedInv, Served
  <2>2. [payload |-> payload[r], status |-> "CREATING", url |-> FALSE] \in LinkRow
    BY <2>1 DEF LinkRow, LinkStatus
  <2>3. link' \in [Key -> LinkRow \union {NoLink}]
    BY <1>5, <2>1, <2>2 DEF Insert, TypeOK
  <2>4. QED BY <1>5, <2>3 DEF Insert, TypeOK, ServedInv, Served, outbox, body
<1>6. ASSUME NEW r \in Request, NEW makes \in BOOLEAN,
             NEW reply \in {"active", "building", "refused", "unknown"}, Call(r, makes, reply)
      PROVE  TypeOK' /\ ServedInv'
  <2>1. key[r] \in Key /\ payload[r] \in Payload
    BY <1>6 DEF Call, ServedInv, Served
  <2>2. charges' \in [Key -> SUBSET (Request \X Payload)]
    BY <1>6, <2>1 DEF Call, TypeOK
  <2>3. (reply \in {"active", "building"}) \in BOOLEAN
    OBVIOUS
  <2>4. url' \in [Request -> BOOLEAN]
    BY <1>6, <2>3 DEF Call, TypeOK
  <2>5. QED BY <1>6, <2>2, <2>4 DEF Call, TypeOK, ServedInv, Served, outbox, body
<1>7. ASSUME NEW r \in Request, Save(r)
      PROVE  TypeOK' /\ ServedInv'
  <2>1. key[r] \in Key /\ payload[r] \in Payload
    BY <1>7 DEF Save, ServedInv, Served
  <2>2. CreationStatus(result[r]) \in LinkStatus
    BY <1>7, CreationStatusType DEF Save, ServedInv
  <2>3. url[r] \in BOOLEAN
    BY DEF TypeOK
  <2>4. [payload |-> payload[r], status |-> CreationStatus(result[r]), url |-> url[r]] \in LinkRow
    BY <2>1, <2>2, <2>3 DEF LinkRow
  <2>5. link' \in [Key -> LinkRow \union {NoLink}]
    BY <1>7, <2>1, <2>4 DEF Save, TypeOK
  <2>6. QED BY <1>7, <2>5 DEF Save, TypeOK, ServedInv, Served, outbox, body
<1>8. ASSUME NEW r \in Request, Queue(r)
      PROVE  TypeOK' /\ ServedInv'
  <2>1. /\ store' = store /\ body' = body /\ result' = result /\ url' = url /\ crashes' = crashes
        /\ pc[r] \in {"queue", "message"}
    BY <1>8 DEF Queue, QueueDuplicate, QueueNew, QueueMessage, QueueClash
  <2>2. /\ message' \in [Key -> {"none", "blank", "url"}]
        /\ pending' \in [Key -> BOOLEAN]
    BY <1>8 DEF Queue, QueueDuplicate, QueueNew, QueueMessage, QueueClash, TypeOK, outbox
  <2>3. \E label \in {"message", "done"} : pc' = [pc EXCEPT ![r] = label]
    BY <1>8 DEF Queue, QueueDuplicate, QueueNew, QueueMessage, QueueClash, Answered
  <2>4. answer' = answer \/ \E a \in Answer : answer' = [answer EXCEPT ![r] = a]
    BY <1>8 DEF Queue, QueueDuplicate, QueueNew, QueueMessage, QueueClash, Answered
  <2>5. QED BY <2>1, <2>2, <2>3, <2>4 DEF TypeOK, ServedInv, Served, store, body
<1>9. ASSUME NEW r \in Request, Crash(r)
      PROVE  TypeOK' /\ ServedInv'
  BY <1>9, ConstantsAssumption DEF Crash, TypeOK, ServedInv, Served, store, outbox, body
<1>10. ASSUME NEW k \in Key, Deliver(k)
       PROVE  TypeOK' /\ ServedInv'
  BY <1>10 DEF Deliver, TypeOK, ServedInv, Served, store, body
<1>11. ASSUME NEW k \in Key, NEW s \in {"PAID", "CANCELED"}, Webhook(k, s)
       PROVE  TypeOK' /\ ServedInv'
  <2>1. link[k] \in LinkRow
    BY <1>11 DEF Webhook, TypeOK
  <2>2. [link[k] EXCEPT !.status = s] \in LinkRow
    BY <2>1 DEF LinkRow, LinkStatus
  <2>3. link' = [link EXCEPT ![k] = [link[k] EXCEPT !.status = s]]
    BY <1>11 DEF Webhook
  <2>4. QED BY <1>11, <2>2, <2>3 DEF Webhook, TypeOK, ServedInv, Served, outbox, body
<1>12. CASE UNCHANGED vars
  BY <1>12 DEF vars, TypeOK, ServedInv, Served, store, outbox, body
<1>13. QED
  BY <1>1, <1>2, <1>3, <1>4, <1>5, <1>6, <1>7, <1>8, <1>9, <1>10, <1>11, <1>12
  DEF Next, Create

-----------------------------------------------------------------------------
(* One link                                                                 *)

\* A step that leaves the tables alone, starts no creation, and brings no URL
\* into memory.
LEMMA CoreFrame ==
    ASSUME CoreInv, store' = store,
           \A r \in Request : /\ Creating(r)' => Creating(r)
                              /\ (pc[r] = "call")' => pc[r] = "call"
                              /\ url'[r] => url[r]
                              /\ Creating(r) \/ url[r] =>
                                    key'[r] = key[r] /\ payload'[r] = payload[r]
    PROVE  CoreInv'
<1>1. link' = link /\ charges' = charges
  BY DEF store
<1>2. \A k \in Key : ChargesInv(k)' /\ RowInv(k)'
  BY <1>1 DEF CoreInv, ChargesInv, RowInv
<1>3. \A r \in Request : UrlInv(r)'
  BY <1>1 DEF CoreInv, UrlInv
<1>4. CreatingInv'
  BY <1>1 DEF CoreInv, CreatingInv, Creating
<1>5. QED BY <1>2, <1>3, <1>4 DEF CoreInv

\* Only the creating thread touches the row of its key and what the provider has.
LEMMA InsertStep ==
    ASSUME TypeOK, ServedInv, CoreInv, NEW r \in Request, Insert(r)
    PROVE  CoreInv'
<1>1. /\ pc[r] = "insert" /\ key[r] \in Key /\ payload[r] \in Payload
      /\ UNCHANGED <<charges, key, payload, url>>
  BY DEF Insert, ServedInv, Served, body
<1>2. CASE KeyTaken(key[r])
  <2>1. store' = store /\ pc' = [pc EXCEPT ![r] = "done"]
    BY <1>1, <1>2 DEF Insert, Reply, Goto, store
  <2>2. QED BY <1>1, <2>1, CoreFrame DEF TypeOK, Creating
<1>3. CASE ~KeyTaken(key[r])
  <2> DEFINE new == [payload |-> payload[r], status |-> "CREATING", url |-> FALSE]
  <2>1. /\ link' = [link EXCEPT ![key[r]] = new] /\ pc' = [pc EXCEPT ![r] = "call"]
        /\ link[key[r]] = NoLink
    BY <1>3 DEF Insert, Goto, KeyTaken
  <2>2. new.payload = payload[r] /\ new.status = "CREATING" /\ ~new.url /\ new # NoLink
    <3>1. new \in LinkRow
      BY <1>1 DEF LinkRow, LinkStatus
    <3>2. QED BY <3>1, NoLinkAssumption
  <2> HIDE DEF new
  <2>3. link'[key[r]] = new /\ \A k \in Key \ {key[r]} : link'[k] = link[k]
    BY <1>1, <2>1 DEF TypeOK
  <2>4. pc'[r] = "call" /\ \A q \in Request \ {r} : pc'[q] = pc[q]
    BY <2>1 DEF TypeOK
  <2>5. charges[key[r]] = {}
    BY <1>1, <2>1 DEF CoreInv, ChargesInv
  <2>6. \A k \in Key : ChargesInv(k)' /\ RowInv(k)'
    BY <1>1, <2>2, <2>3, <2>5 DEF CoreInv, ChargesInv, RowInv
  <2>7. \A q \in Request : url[q] => key[q] # key[r]
    BY <2>1 DEF CoreInv, UrlInv
  <2>8. \A q \in Request : UrlInv(q)'
    BY <1>1, <2>3, <2>7 DEF CoreInv, UrlInv
  <2>9. \A q \in Request \ {r} : Creating(q) => key[q] \in Key /\ key[q] # key[r]
    BY <2>1 DEF CoreInv, CreatingInv, ServedInv, Served, Creating
  <2>10. CreatingInv'
    BY <1>1, <2>2, <2>3, <2>4, <2>5, <2>9 DEF CoreInv, CreatingInv, Creating
  <2>11. QED BY <2>6, <2>8, <2>10 DEF CoreInv
<1>4. QED BY <1>2, <1>3

LEMMA CallStep ==
    ASSUME TypeOK, ServedInv, CoreInv, NEW r \in Request, NEW makes \in BOOLEAN,
           NEW reply \in Result, Call(r, makes, reply)
    PROVE  CoreInv'
<1>1. /\ pc[r] = "call" /\ key[r] \in Key /\ payload[r] \in Payload
      /\ UNCHANGED <<link, key, payload>>
      /\ pc' = [pc EXCEPT ![r] = "save"]
  BY DEF Call, ServedInv, Served, body, Goto
<1>2. pc'[r] = "save" /\ \A q \in Request \ {r} : pc'[q] = pc[q]
  BY <1>1 DEF TypeOK
<1>3. /\ charges[key[r]] = {}
      /\ link[key[r]] # NoLink /\ link[key[r]].payload = payload[r] /\ ~link[key[r]].url
  BY <1>1 DEF CoreInv, CreatingInv, Creating
<1>4. /\ \A k \in Key \ {key[r]} : charges'[k] = charges[k]
      /\ charges'[key[r]] = IF makes THEN {<<r, payload[r]>>} ELSE {}
  BY <1>1, <1>3 DEF Call, TypeOK
<1>5. (\A q \in Request \ {r} : url'[q] = url[q]) /\ (url'[r] => makes)
  <2>1. (reply \in {"active", "building"}) => makes
    BY DEF Call
  <2> DEFINE new == reply \in {"active", "building"}
  <2>2. url' = [url EXCEPT ![r] = new]
    BY DEF Call
  <2>3. new => makes
    BY <2>1
  <2> HIDE DEF new
  <2>4. QED BY <2>2, <2>3 DEF TypeOK
<1>6. \A k \in Key : ChargesInv(k)' /\ RowInv(k)'
  <2>1. ChargesInv(key[r])' /\ RowInv(key[r])'
    <3>1. \E q \in Request : {<<r, payload[r]>>} = {<<q, link[key[r]].payload>>}
      BY <1>3
    <3>2. \/ charges'[key[r]] = {}
          \/ /\ link'[key[r]] # NoLink
             /\ \E q \in Request : charges'[key[r]] = {<<q, link'[key[r]].payload>>}
      BY <1>1, <1>3, <1>4, <3>1
    <3>3. key'[r] = key[r]
      BY <1>1
    <3>4. RowInv(key[r])
      BY <1>1 DEF CoreInv
    <3>5. QED BY <1>1, <1>3, <3>2, <3>3, <3>4 DEF ChargesInv, RowInv
  <2>2. \A k \in Key \ {key[r]} : ChargesInv(k)' /\ RowInv(k)'
    BY <1>1, <1>4 DEF CoreInv, ChargesInv, RowInv
  <2>3. key'[r] = key[r]
    BY <1>1
  <2>4. QED BY <2>1, <2>2, <2>3
<1>7. \A q \in Request \ {r} : UrlInv(q)'
  <2>1. \A q \in Request \ {r} : url[q] => key[q] # key[r]
    BY <1>3 DEF CoreInv, UrlInv
  <2>2. QED BY <1>1, <1>4, <1>5, <2>1 DEF CoreInv, UrlInv
<1>8. UrlInv(r)'
  BY <1>1, <1>3, <1>4, <1>5 DEF UrlInv
<1>9. CreatingInv'
  <2>1. \A q \in Request \ {r} : Creating(q) => key[q] # key[r] /\ key[q] \in Key
    BY <1>1 DEF CoreInv, CreatingInv, Creating, ServedInv, Served
  <2>2. QED BY <1>1, <1>2, <1>3, <1>4, <2>1 DEF CoreInv, CreatingInv, Creating
<1>10. QED BY <1>6, <1>7, <1>8, <1>9 DEF CoreInv

LEMMA SaveStep ==
    ASSUME TypeOK, ServedInv, CoreInv, NEW r \in Request, Save(r)
    PROVE  CoreInv'
<1> DEFINE new == [payload |-> payload[r], status |-> CreationStatus(result[r]), url |-> url[r]]
<1>1. /\ pc[r] = "save" /\ key[r] \in Key /\ payload[r] \in Payload
      /\ UNCHANGED <<charges, key, payload, url>>
      /\ link' = [link EXCEPT ![key[r]] = new]
      /\ \E label \in {"done", "queue"} : pc' = [pc EXCEPT ![r] = label]
  BY DEF Save, ServedInv, Served, body, Goto, Reply
<1>2. /\ new.payload = payload[r] /\ new.status # "PAID" /\ new.url = url[r]
      /\ new # NoLink
  <2>1. CreationStatus(result[r]) \in LinkStatus \ {"PAID"}
    BY <1>1, CreationStatusType DEF ServedInv
  <2>2. new \in LinkRow
    BY <1>1, <2>1 DEF LinkRow, TypeOK
  <2>3. QED BY <2>1, <2>2, NoLinkAssumption
<1> HIDE DEF new
<1>3. link'[key[r]] = new /\ \A k \in Key \ {key[r]} : link'[k] = link[k]
  BY <1>1 DEF TypeOK
<1>4. ~Creating(r)' /\ \A q \in Request \ {r} : pc'[q] = pc[q]
  BY <1>1 DEF TypeOK, Creating
<1>5. link[key[r]] # NoLink /\ link[key[r]].payload = payload[r]
  BY <1>1 DEF CoreInv, CreatingInv, Creating
<1>6. \A k \in Key : ChargesInv(k)' /\ RowInv(k)'
  BY <1>1, <1>2, <1>3, <1>5 DEF CoreInv, ChargesInv, RowInv, UrlInv
<1>7. \A q \in Request : UrlInv(q)'
  BY <1>1, <1>2, <1>3, <1>5 DEF CoreInv, UrlInv
<1>8. CreatingInv'
  <2>1. \A q \in Request \ {r} : Creating(q) => key[q] # key[r] /\ key[q] \in Key
    BY <1>1 DEF CoreInv, CreatingInv, Creating, ServedInv, Served
  <2>2. QED BY <1>1, <1>3, <1>4, <2>1 DEF CoreInv, CreatingInv, Creating
<1>9. QED BY <1>6, <1>7, <1>8 DEF CoreInv

LEMMA WebhookStep ==
    ASSUME TypeOK, ServedInv, CoreInv, NEW k \in Key, NEW s \in {"PAID", "CANCELED"}, Webhook(k, s)
    PROVE  CoreInv'
<1> DEFINE new == [link[k] EXCEPT !.status = s]
<1>1. /\ link[k] # NoLink /\ link[k] \in LinkRow
      /\ UNCHANGED <<charges, pc, key, payload, url>>
      /\ link' = [link EXCEPT ![k] = new]
      /\ s = "PAID" => link[k].url
  BY DEF Webhook, TypeOK, body
<1>2. /\ new.payload = link[k].payload /\ new.status = s /\ new.url = link[k].url
      /\ new # NoLink
  <2>1. new \in LinkRow
    BY <1>1 DEF LinkRow, LinkStatus
  <2>2. QED BY <1>1, <2>1, NoLinkAssumption DEF LinkRow
<1> HIDE DEF new
<1>3. link'[k] = new /\ \A j \in Key \ {k} : link'[j] = link[j]
  BY <1>1 DEF TypeOK
<1>4. \A j \in Key : ChargesInv(j)' /\ RowInv(j)'
  BY <1>1, <1>2, <1>3 DEF CoreInv, ChargesInv, RowInv
<1>5. \A q \in Request : UrlInv(q)'
  BY <1>1, <1>2, <1>3 DEF CoreInv, UrlInv
<1>6. CreatingInv'
  <2>1. \A q \in Request : Creating(q) => key[q] \in Key
    BY DEF Creating, ServedInv, Served
  <2>2. QED BY <1>1, <1>2, <1>3, <2>1 DEF CoreInv, CreatingInv, Creating
<1>7. QED BY <1>4, <1>5, <1>6 DEF CoreInv

\* Every step keeps CoreInv.
LEMMA CoreStep ==
    ASSUME TypeOK, ServedInv, CoreInv, [Next]_vars
    PROVE  CoreInv'
<1>1. ASSUME NEW r \in Request, NEW k \in Key, NEW p \in Payload, Arrive(r, k, p)
      PROVE  CoreInv'
  <2>1. ~Creating(r) /\ ~url[r]
    BY <1>1 DEF Arrive, Creating, ServedInv
  <2>2. url' = url /\ store' = store /\ pc' = [pc EXCEPT ![r] = "check"]
    BY <1>1 DEF Arrive, Goto
  <2>3. \A q \in Request \ {r} : key'[q] = key[q] /\ payload'[q] = payload[q]
    BY <1>1 DEF Arrive, TypeOK
  <2>4. QED BY <2>1, <2>2, <2>3, CoreFrame DEF TypeOK, Creating
<1>2. ASSUME NEW r \in Request, NEW k \in Key, Resend(r, k)
      PROVE  CoreInv'
  <2>1. /\ ~Creating(r) /\ link[k] # NoLink /\ link[k].url
        /\ link' = link /\ charges' = charges
        /\ key' = [key EXCEPT ![r] = k] /\ payload' = [payload EXCEPT ![r] = link[k].payload]
        /\ url' = [url EXCEPT ![r] = TRUE] /\ pc' = [pc EXCEPT ![r] = "queue"]
    BY <1>2 DEF Resend, Creating, store, Goto
  <2>2. \A q \in Request \ {r} : /\ key'[q] = key[q] /\ payload'[q] = payload[q]
                                 /\ url'[q] = url[q] /\ pc'[q] = pc[q]
    BY <2>1 DEF TypeOK
  <2>3. key'[r] = k /\ payload'[r] = link[k].payload /\ ~Creating(r)'
    BY <2>1 DEF TypeOK, Creating
  <2>4. charges[k] # {}
    BY <2>1 DEF CoreInv, RowInv
  <2>5. \A q \in Request : UrlInv(q)'
    BY <2>1, <2>2, <2>3, <2>4 DEF CoreInv, UrlInv
  <2>6. CreatingInv'
    BY SMTT(30), <2>1, <2>2, <2>3 DEF CoreInv, CreatingInv, Creating
  <2>7. \A j \in Key : ChargesInv(j)' /\ RowInv(j)'
    BY <2>1 DEF CoreInv, ChargesInv, RowInv
  <2>8. QED BY <2>5, <2>6, <2>7 DEF CoreInv
<1>3. ASSUME NEW r \in Request, Check(r)
      PROVE  CoreInv'
  <2>1. /\ key[r] \in Key /\ ~Creating(r)
        /\ link' = link /\ charges' = charges /\ key' = key /\ payload' = payload
        /\ \E label \in {"insert", "queue", "done"} : pc' = [pc EXCEPT ![r] = label]
    BY <1>3 DEF Check, Creating, store, body, ServedInv, Served, Goto, Reply
  <2>2. CASE link[key[r]] = NoLink \/ ~SamePayload(r)
    <3>1. url' = url
      BY <1>3, <2>2 DEF Check
    <3>2. QED BY <2>1, <3>1, CoreFrame DEF TypeOK, Creating, store
  <2>3. CASE link[key[r]] # NoLink /\ SamePayload(r)
    <3>1. url' = [url EXCEPT ![r] = link[key[r]].url]
      BY <1>3, <2>3 DEF Check
    <3>2. link[key[r]].url => charges[key[r]] # {}
      BY <2>1, <2>3 DEF CoreInv, RowInv
    <3>3. /\ url'[r] = link[key[r]].url /\ ~Creating(r)'
          /\ \A q \in Request \ {r} : url'[q] = url[q] /\ pc'[q] = pc[q]
      BY <2>1, <3>1 DEF TypeOK, Creating
    <3>4. \A q \in Request : UrlInv(q)'
      BY <2>1, <2>3, <3>2, <3>3 DEF CoreInv, UrlInv, SamePayload
    <3>5. CreatingInv'
      BY <2>1, <3>3 DEF CoreInv, CreatingInv, Creating
    <3>6. \A j \in Key : ChargesInv(j)' /\ RowInv(j)'
      BY <2>1 DEF CoreInv, ChargesInv, RowInv
    <3>7. QED BY <3>4, <3>5, <3>6 DEF CoreInv
  <2>4. QED BY <2>2, <2>3
<1>4. ASSUME NEW r \in Request, Reject(r) \/ Queue(r) \/ Crash(r)
      PROVE  CoreInv'
  <2>1. store' = store /\ url' = url /\ key' = key /\ payload' = payload
    BY <1>4 DEF Reject, Queue, QueueDuplicate, QueueNew, QueueMessage, QueueClash, Crash, body
  <2>2. pc' = [pc EXCEPT ![r] = "done"] \/ pc' = [pc EXCEPT ![r] = "message"]
    BY <1>4 DEF Reject, Queue, QueueDuplicate, QueueNew, QueueMessage, QueueClash, Crash,
       Answered, Reply, Goto
  <2>3. QED BY <2>1, <2>2, CoreFrame DEF TypeOK, Creating
<1>5. ASSUME (\E k \in Key : Deliver(k)) \/ UNCHANGED vars
      PROVE  CoreInv'
  <2>1. store' = store /\ url' = url /\ key' = key /\ payload' = payload /\ pc' = pc
    BY <1>5 DEF Deliver, vars, body
  <2>2. QED BY <2>1, CoreFrame DEF Creating
<1>6. \A reply \in {"active", "building", "refused", "unknown"} : reply \in Result
  BY DEF Result
<1>7. QED
  BY <1>1, <1>2, <1>3, <1>4, <1>5, <1>6, InsertStep, CallStep, SaveStep, WebhookStep
  DEF Next, Create

-----------------------------------------------------------------------------
(* Theorems                                                                 *)

\* The inductive invariant of the creation: who may still save the row of a key,
\* and which link of the provider the row and the URLs in memory are of.
THEOREM Invariance == Spec => []IInv
<1>1. Init => IInv
  BY InitIInv
<1>2. IInv /\ [Next]_vars => IInv'
  BY TypeStep, CoreStep DEF IInv
<1>3. QED BY <1>1, <1>2, PTL DEF Spec

\* Every reachable state has its variables in range.
THEOREM TypeCorrect == Spec => []TypeOK
<1>1. IInv => TypeOK
  BY DEF IInv
<1>2. QED BY <1>1, Invariance, PTL

\* However many requests share a key, and however they are interleaved or die,
\* the provider makes one link for it at most, and its row is there.
THEOREM KeysChargeOnce == Spec => []OneCharge
<1>1. ASSUME IInv PROVE OneCharge
  <2>1. ASSUME NEW k \in Key
        PROVE  Cardinality(charges[k]) <= 1 /\ (charges[k] # {} => link[k] # NoLink)
    <3>1. ChargesInv(k)
      BY <1>1 DEF IInv, CoreInv
    <3>2. CASE charges[k] = {}
      BY <3>2, FS_EmptySet
    <3>3. CASE charges[k] # {}
      <4>1. PICK x : charges[k] = {x}
        BY <3>1, <3>3 DEF ChargesInv
      <4>2. Cardinality(charges[k]) = 1
        BY <4>1, FS_Singleton
      <4>3. QED BY <3>1, <3>3, <4>2 DEF ChargesInv
    <3>4. QED BY <3>2, <3>3
  <2>2. QED BY <2>1 DEF OneCharge
<1>2. QED BY <1>1, Invariance, PTL

\* The URL in an answer is that of a link made for the body that was sent.
THEOREM UrlsMatchTheirBodies == Spec => []UrlIsForThisBody
<1>1. ASSUME IInv PROVE UrlIsForThisBody
  <2>1. ASSUME NEW r \in Request, url[r]
        PROVE  \E q \in Request : charges[key[r]] = {<<q, payload[r]>>}
    <3>1. /\ key[r] \in Key /\ charges[key[r]] # {}
          /\ link[key[r]].payload = payload[r]
      BY <1>1, <2>1 DEF IInv, CoreInv, UrlInv
    <3>2. QED BY <1>1, <3>1 DEF IInv, CoreInv, ChargesInv
  <2>2. QED BY <2>1 DEF UrlIsForThisBody
<1>2. QED BY <1>1, Invariance, PTL

\* No creation, retry or replay writes over a payment.
THEOREM PaymentsAreKept == Spec => PaidIsKept
<1>1. ASSUME IInv, [Next]_vars, NEW k \in Key, link[k] # NoLink, link[k].status = "PAID"
      PROVE  link'[k].status = "PAID"
  <2>1. link[k].url
    BY <1>1 DEF IInv, CoreInv, RowInv
  <2>2. ASSUME NEW r \in Request, Save(r)
        PROVE  link'[k] = link[k]
    <3>1. key[r] # k
      <4>1. Creating(r)
        BY <2>2 DEF Save, Creating
      <4>2. ~link[key[r]].url
        BY <1>1, <4>1 DEF IInv, CoreInv, CreatingInv
      <4>3. QED BY <2>1, <4>2
    <3>2. QED BY <2>2, <3>1, <1>1 DEF Save, IInv, TypeOK
  <2>3. ASSUME NEW r \in Request, Insert(r)
        PROVE  link'[k] = link[k]
    BY <1>1, <2>3 DEF Insert, KeyTaken, IInv, TypeOK
  <2>4. ASSUME NEW j \in Key, NEW s \in {"PAID", "CANCELED"}, Webhook(j, s)
        PROVE  link'[k].status = "PAID"
    <3>1. CASE j = k
      <4>1. s = "PAID"
        BY <1>1, <2>4, <3>1 DEF Webhook
      <4>2. link' = [link EXCEPT ![k] = [link[k] EXCEPT !.status = "PAID"]]
        BY <2>4, <3>1, <4>1 DEF Webhook
      <4>3. link[k] \in LinkRow
        BY <1>1 DEF IInv, TypeOK
      <4>4. QED BY <1>1, <4>2, <4>3 DEF IInv, TypeOK, LinkRow
    <3>2. CASE j # k
      BY <1>1, <2>4, <3>2 DEF Webhook, IInv, TypeOK
    <3>3. QED BY <3>1, <3>2
  <2>5. ASSUME NEW r \in Request,
               \/ \E i \in Key : Resend(r, i) \/ \E p \in Payload : Arrive(r, i, p)
               \/ Reject(r) \/ Check(r) \/ Queue(r) \/ Crash(r)
               \/ \E makes \in BOOLEAN, reply \in Result : Call(r, makes, reply)
        PROVE  link' = link
    BY <2>5 DEF Resend, Arrive, Reject, Check, Queue, QueueDuplicate, QueueNew, QueueMessage,
       QueueClash, Crash, Call, store
  <2>6. ASSUME (\E i \in Key : Deliver(i)) \/ UNCHANGED vars
        PROVE  link' = link
    BY <2>6 DEF Deliver, vars, store
  <2>7. \A reply \in {"active", "building", "refused", "unknown"} : reply \in Result
    BY DEF Result
  <2>8. QED BY <1>1, <2>2, <2>3, <2>4, <2>5, <2>6, <2>7 DEF Next, Create
<1>2. IInv /\ [Next]_vars =>
        [\A k \in Key : link[k] # NoLink /\ link[k].status = "PAID" =>
            link'[k].status = "PAID"]_vars
  BY <1>1
<1>3. QED BY <1>2, Invariance, PTL DEF Spec, PaidIsKept

-----------------------------------------------------------------------------
(* The idempotent creation                                                  *)

\* A request is told something once, when it ends.
AnswerInv == \A r \in Request : pc[r] # "done" => answer[r] = "none"

LEMMA AnswerStep ==
    ASSUME TypeOK, AnswerInv, [Next]_vars
    PROVE  AnswerInv'
<1> USE DEF Goto, Reply
<1>1. ASSUME NEW r \in Request, NEW k \in Key, Resend(r, k) \/ \E p \in Payload : Arrive(r, k, p)
      PROVE  AnswerInv'
  BY <1>1 DEF Resend, Arrive, AnswerInv, TypeOK
<1>2. ASSUME NEW r \in Request, Reject(r) \/ Create(r) \/ Queue(r) \/ Crash(r)
      PROVE  AnswerInv'
  <2>1. pc[r] # "done"
    BY <1>2 DEF Reject, Create, Check, Insert, Call, Save, Queue, QueueDuplicate, QueueNew, QueueMessage,
       QueueClash, Crash
  <2>2. /\ \E l : pc' = [pc EXCEPT ![r] = l]
        /\ answer' = answer \/ \E a : Reply(r, a)
    BY <1>2 DEF Reject, Create, Check, Insert, Call, Save, Queue, QueueDuplicate, QueueNew, QueueMessage,
       QueueClash, Crash, Answered
  <2>3. CASE answer' = answer
    BY <2>1, <2>2, <2>3 DEF AnswerInv, TypeOK
  <2>4. CASE \E a : Reply(r, a)
    BY <2>1, <2>4 DEF AnswerInv, TypeOK
  <2>5. QED BY <2>2, <2>3, <2>4
<1>3. CASE (\E k \in Key : Deliver(k) \/ \E s \in {"PAID", "CANCELED"} : Webhook(k, s)) \/ UNCHANGED vars
  BY <1>3 DEF Deliver, Webhook, vars, AnswerInv
<1>4. QED BY <1>1, <1>2, <1>3 DEF Next

\* What a step leaves alone is left alone in the abstract state.
LEMMA QuietPromise ==
    ASSUME store' = store, \A r \in Request : Told(r)' = Told(r)
    PROVE  UNCHANGED Promise!vars
<1>1. link' = link /\ charges' = charges
  BY DEF store
<1>2. [k \in Key |-> IF link[k] = NoLink THEN NoValue ELSE link[k].payload]'
      = [k \in Key |-> IF link[k] = NoLink THEN NoValue ELSE link[k].payload]
  BY <1>1
<1>3. {k \in Key : link[k] # NoLink /\ link[k].status = "PAID"}'
      = {k \in Key : link[k] # NoLink /\ link[k].status = "PAID"}
  BY <1>1
<1>4. [r \in Request |-> Told(r)]' = [r \in Request |-> Told(r)]
  OBVIOUS
<1>5. QED BY <1>1, <1>2, <1>3, <1>4 DEF Promise!vars

\* Until it is answered a request has been told nothing, and what it has in memory
\* may change.
LEMMA QuietRequest ==
    ASSUME AnswerInv, NEW r \in Request, pc[r] # "done",
           answer' = answer,
           \A q \in Request \ {r} : key'[q] = key[q] /\ payload'[q] = payload[q] /\ url'[q] = url[q]
    PROVE  \A q \in Request : Told(q)' = Told(q)
<1>1. answer[r] = "none" /\ answer'[r] = "none"
  BY DEF AnswerInv
<1>2. Told(r) = NoValue /\ Told(r)' = NoValue
  BY <1>1 DEF Told
<1>3. ASSUME NEW q \in Request \ {r} PROVE Told(q)' = Told(q)
  BY <1>3 DEF Told
<1>4. QED BY <1>2, <1>3

\* A request that ends without a URL and without a conflict is told nothing.
LEMMA QuietReply ==
    ASSUME TypeOK, AnswerInv, NEW r \in Request, NEW a, Reply(r, a), pc[r] # "done",
           UNCHANGED <<body, url>>, ~(a = "created" /\ url[r]), a # "conflict"
    PROVE  \A q \in Request : Told(q)' = Told(q)
<1>1. /\ answer[r] = "none" /\ answer'[r] = a
      /\ \A q \in Request \ {r} : answer'[q] = answer[q]
      /\ key' = key /\ payload' = payload /\ url' = url
  BY DEF AnswerInv, Reply, TypeOK, body
<1>2. Told(r) = NoValue /\ Told(r)' = NoValue
  BY <1>1 DEF Told
<1>3. ASSUME NEW q \in Request \ {r} PROVE Told(q)' = Told(q)
  BY <1>1, <1>3 DEF Told
<1>4. QED BY <1>2, <1>3

\* A request that ends with a URL or a conflict is told so, and it is true.
LEMMA TellPromise ==
    ASSUME TypeOK, ServedInv, CoreInv, AnswerInv, NEW r \in Request, Served(r),
           NEW a, Reply(r, a), UNCHANGED <<store, body, url>>,
           \/ a = "created" /\ url[r]
           \/ a = "conflict" /\ link[key[r]] # NoLink /\ ~SamePayload(r)
    PROVE  \E k \in Key, p \in Payload, word \in {"url", "conflict"} : Promise!Tell(r, k, p, word)
<1> DEFINE word == IF a = "conflict" THEN "conflict" ELSE "url"
           said == [key |-> key[r], body |-> payload[r], word |-> word]
<1>1. /\ key[r] \in Key /\ payload[r] \in Payload
      /\ pc[r] # "done" /\ answer[r] = "none" /\ answer'[r] = a
      /\ \A q \in Request \ {r} : answer'[q] = answer[q]
      /\ key' = key /\ payload' = payload /\ url' = url /\ link' = link /\ charges' = charges
  BY DEF ServedInv, Served, AnswerInv, Reply, TypeOK, body, store
<1>2. Told(r) = NoValue
  BY <1>1 DEF Told
<1>3. Told(r)' = said
  BY <1>1 DEF Told
<1>4. \A q \in Request \ {r} : Told(q)' = Told(q)
  BY <1>1 DEF Told
<1> HIDE DEF said
<1>5. [q \in Request |-> Told(q)]' = [[q \in Request |-> Told(q)] EXCEPT ![r] = said]
  BY <1>3, <1>4
<1>6. [k \in Key |-> IF link[k] = NoLink THEN NoValue ELSE link[k].payload]'
      = [k \in Key |-> IF link[k] = NoLink THEN NoValue ELSE link[k].payload]
  BY <1>1
<1>7. {k \in Key : link[k] # NoLink /\ link[k].status = "PAID"}'
      = {k \in Key : link[k] # NoLink /\ link[k].status = "PAID"}
  BY <1>1
<1>8. \/ /\ word = "url" /\ charges[key[r]] # {}
         /\ link[key[r]] # NoLink /\ link[key[r]].payload = payload[r]
      \/ /\ word = "conflict"
         /\ link[key[r]] # NoLink /\ link[key[r]].payload \notin {NoValue, payload[r]}
  <2>1. CASE a = "created" /\ url[r]
    BY <2>1 DEF CoreInv, UrlInv
  <2>2. CASE a = "conflict" /\ link[key[r]] # NoLink /\ ~SamePayload(r)
    <3>1. link[key[r]] \in LinkRow
      BY <1>1, <2>2 DEF TypeOK
    <3>2. link[key[r]].payload \in Payload
      BY <3>1 DEF LinkRow
    <3>3. QED BY <2>2, <3>2, ConstantsAssumption DEF SamePayload
  <2>3. QED BY <2>1, <2>2
<1>9. word \in {"url", "conflict"}
  OBVIOUS
<1> HIDE DEF word
<1>10. Promise!Tell(r, key[r], payload[r], word)
  BY <1>1, <1>2, <1>5, <1>6, <1>7, <1>8 DEF Promise!Tell, said
<1>11. QED BY <1>1, <1>9, <1>10

\* The end of a request that has a row: told its URL, or nothing.
LEMMA AnsweredPromise ==
    ASSUME TypeOK, ServedInv, CoreInv, AnswerInv, NEW r \in Request, Served(r), Answered(r),
           UNCHANGED <<store, body, url>>
    PROVE  [Promise!Next]_(Promise!vars)
<1> DEFINE a == IF result[r] \in {"unknown", "resend"} THEN "uncertain" ELSE "created"
<1>1. Reply(r, a) /\ a \in {"uncertain", "created"}
  BY DEF Answered
<1> HIDE DEF a
<1>2. CASE a = "created" /\ url[r]
  BY <1>1, <1>2, TellPromise DEF Promise!Next
<1>3. CASE ~(a = "created" /\ url[r])
  BY <1>1, <1>3, QuietReply, QuietPromise DEF Served
<1>4. QED BY <1>2, <1>3

LEMMA InsertPromise ==
    ASSUME TypeOK, ServedInv, AnswerInv, NEW r \in Request, Insert(r)
    PROVE  [Promise!Next]_(Promise!vars)
<1>1. /\ pc[r] = "insert" /\ key[r] \in Key /\ payload[r] \in Payload
      /\ UNCHANGED <<charges, body, url>>
  BY DEF Insert, ServedInv, Served
<1>2. CASE KeyTaken(key[r])
  BY <1>1, <1>2, QuietReply, QuietPromise DEF Insert, store
<1>3. CASE ~KeyTaken(key[r])
  <2> DEFINE new == [payload |-> payload[r], status |-> "CREATING", url |-> FALSE]
  <2>1. link' = [link EXCEPT ![key[r]] = new] /\ link[key[r]] = NoLink /\ answer' = answer
    BY <1>3 DEF Insert, KeyTaken
  <2>2. new.payload = payload[r] /\ new.status # "PAID" /\ new # NoLink
    <3>1. new \in LinkRow
      BY <1>1 DEF LinkRow, LinkStatus
    <3>2. QED BY <3>1, NoLinkAssumption
  <2> HIDE DEF new
  <2>3. link'[key[r]] = new /\ \A k \in Key \ {key[r]} : link'[k] = link[k]
    BY <1>1, <2>1 DEF TypeOK
  <2>4. \A q \in Request : Told(q)' = Told(q)
    BY <1>1, <2>1, QuietRequest DEF body
  <2>5. [k \in Key |-> IF link[k] = NoLink THEN NoValue ELSE link[k].payload]'
        = [[k \in Key |-> IF link[k] = NoLink THEN NoValue ELSE link[k].payload]
              EXCEPT ![key[r]] = payload[r]]
    BY <1>1, <2>2, <2>3
  <2>6. {k \in Key : link[k] # NoLink /\ link[k].status = "PAID"}'
        = {k \in Key : link[k] # NoLink /\ link[k].status = "PAID"}
    BY <2>1, <2>2, <2>3
  <2>7. [q \in Request |-> Told(q)]' = [q \in Request |-> Told(q)]
    BY <2>4
  <2>8. \E k \in Key, p \in Payload : Promise!Bind(k, p)
    <3>1. PICK k \in Key, p \in Payload : k = key[r] /\ p = payload[r]
      BY <1>1
    <3>2. Promise!Bind(k, p)
      BY <1>1, <2>1, <2>5, <2>6, <2>7, <3>1 DEF Promise!Bind
    <3>3. QED BY <3>2
  <2>9. QED BY <2>8 DEF Promise!Next
<1>4. QED BY <1>2, <1>3

LEMMA CallPromise ==
    ASSUME TypeOK, ServedInv, CoreInv, AnswerInv, NEW r \in Request, NEW makes \in BOOLEAN,
           NEW reply, Call(r, makes, reply)
    PROVE  [Promise!Next]_(Promise!vars)
<1>1. /\ pc[r] = "call" /\ key[r] \in Key /\ payload[r] \in Payload
      /\ link' = link /\ key' = key /\ payload' = payload /\ answer' = answer
      /\ \E u : url' = [url EXCEPT ![r] = u]
  BY DEF Call, ServedInv, Served, body
<1>2. \A q \in Request : Told(q)' = Told(q)
  <2>1. \A q \in Request \ {r} : url'[q] = url[q]
    BY <1>1 DEF TypeOK
  <2>2. QED BY <1>1, <2>1, QuietRequest
<1>3. CASE ~makes
  <2>1. store' = store
    BY <1>1, <1>3 DEF Call, store
  <2>2. QED BY <1>2, <2>1, QuietPromise
<1>4. CASE makes
  <2>1. /\ charges[key[r]] = {} /\ link[key[r]] # NoLink /\ link[key[r]].payload = payload[r]
    BY <1>1 DEF CoreInv, CreatingInv, Creating
  <2>2. charges' = [charges EXCEPT ![key[r]] = {<<r, payload[r]>>}]
    BY <1>1, <1>4, <2>1 DEF Call, TypeOK
  <2>3. [k \in Key |-> IF link[k] = NoLink THEN NoValue ELSE link[k].payload]'
        = [k \in Key |-> IF link[k] = NoLink THEN NoValue ELSE link[k].payload]
    BY <1>1
  <2>4. {k \in Key : link[k] # NoLink /\ link[k].status = "PAID"}'
        = {k \in Key : link[k] # NoLink /\ link[k].status = "PAID"}
    BY <1>1
  <2>5. [q \in Request |-> Told(q)]' = [q \in Request |-> Told(q)]
    BY <1>2
  <2>6. payload[r] # NoValue
    BY <1>1, ConstantsAssumption
  <2>7. Promise!Charge(r, key[r])
    BY <1>1, <2>1, <2>2, <2>3, <2>4, <2>5, <2>6 DEF Promise!Charge
  <2>8. QED BY <1>1, <2>7 DEF Promise!Next
<1>5. QED BY <1>3, <1>4

\* The late save finds the row as it was inserted, or canceled, and never paid.
LEMMA SavePromise ==
    ASSUME TypeOK, ServedInv, CoreInv, AnswerInv, NEW r \in Request, Save(r)
    PROVE  UNCHANGED Promise!vars
<1> DEFINE new == [payload |-> payload[r], status |-> CreationStatus(result[r]), url |-> url[r]]
<1>1. /\ pc[r] = "save" /\ key[r] \in Key /\ payload[r] \in Payload
      /\ UNCHANGED <<charges, body, url>>
      /\ link' = [link EXCEPT ![key[r]] = new]
      /\ answer' = answer \/ Reply(r, "refused")
  BY DEF Save, ServedInv, Served
<1>2. new.payload = payload[r] /\ new.status # "PAID" /\ new # NoLink
  <2>1. CreationStatus(result[r]) \in LinkStatus \ {"PAID"}
    BY <1>1, CreationStatusType DEF ServedInv
  <2>2. new \in LinkRow
    BY <1>1, <2>1 DEF LinkRow, TypeOK
  <2>3. QED BY <2>1, <2>2, NoLinkAssumption
<1> HIDE DEF new
<1>3. link'[key[r]] = new /\ \A k \in Key \ {key[r]} : link'[k] = link[k]
  BY <1>1 DEF TypeOK
<1>4. /\ link[key[r]] # NoLink /\ link[key[r]].payload = payload[r]
      /\ link[key[r]].status # "PAID"
  BY <1>1 DEF CoreInv, CreatingInv, Creating, RowInv
<1>5. \A q \in Request : Told(q)' = Told(q)
  BY <1>1, QuietReply, QuietRequest DEF body
<1>6. [k \in Key |-> IF link[k] = NoLink THEN NoValue ELSE link[k].payload]'
      = [k \in Key |-> IF link[k] = NoLink THEN NoValue ELSE link[k].payload]
  BY <1>2, <1>3, <1>4
<1>7. {k \in Key : link[k] # NoLink /\ link[k].status = "PAID"}'
      = {k \in Key : link[k] # NoLink /\ link[k].status = "PAID"}
  BY <1>1, <1>2, <1>3, <1>4
<1>8. [q \in Request |-> Told(q)]' = [q \in Request |-> Told(q)]
  BY <1>5
<1>9. QED BY <1>1, <1>6, <1>7, <1>8 DEF Promise!vars

LEMMA WebhookPromise ==
    ASSUME TypeOK, NEW k \in Key, NEW s \in {"PAID", "CANCELED"}, Webhook(k, s)
    PROVE  [Promise!Next]_(Promise!vars)
<1> DEFINE new == [link[k] EXCEPT !.status = s]
<1>1. /\ link[k] # NoLink /\ link[k] \in LinkRow /\ charges[k] # {}
      /\ UNCHANGED <<charges, body, url, answer>>
      /\ link' = [link EXCEPT ![k] = new]
      /\ s = "PAID" \/ link[k].status # "PAID"
  BY DEF Webhook, TypeOK
<1>2. new.payload = link[k].payload /\ new.status = s /\ new # NoLink
  <2>1. new \in LinkRow
    BY <1>1 DEF LinkRow, LinkStatus
  <2>2. QED BY <1>1, <2>1, NoLinkAssumption DEF LinkRow
<1> HIDE DEF new
<1>3. link'[k] = new /\ \A j \in Key \ {k} : link'[j] = link[j]
  BY <1>1 DEF TypeOK
<1>4. [j \in Key |-> IF link[j] = NoLink THEN NoValue ELSE link[j].payload]'
      = [j \in Key |-> IF link[j] = NoLink THEN NoValue ELSE link[j].payload]
  BY <1>1, <1>2, <1>3
<1>5. [q \in Request |-> Told(q)]' = [q \in Request |-> Told(q)]
  BY <1>1 DEF Told, body
<1>6. CASE s = "PAID"
  <2>1. {j \in Key : link[j] # NoLink /\ link[j].status = "PAID"}'
        = {j \in Key : link[j] # NoLink /\ link[j].status = "PAID"} \union {k}
    BY <1>2, <1>3, <1>6
  <2>2. Promise!Pay(k)
    BY <1>1, <1>4, <1>5, <2>1 DEF Promise!Pay
  <2>3. QED BY <2>2 DEF Promise!Next
<1>7. CASE s = "CANCELED"
  <2>1. {j \in Key : link[j] # NoLink /\ link[j].status = "PAID"}'
        = {j \in Key : link[j] # NoLink /\ link[j].status = "PAID"}
    BY <1>1, <1>2, <1>3, <1>7
  <2>2. QED BY <1>1, <1>4, <1>5, <2>1 DEF Promise!vars
<1>8. QED BY <1>6, <1>7

\* Each step is a step of the idempotent creation, or none.
LEMMA PromiseStep ==
    ASSUME IInv, AnswerInv, [Next]_vars
    PROVE  [Promise!Next]_(Promise!vars)
<1> USE DEF IInv
<1>1. ASSUME NEW r \in Request, NEW k \in Key, Resend(r, k) \/ \E p \in Payload : Arrive(r, k, p)
      PROVE  UNCHANGED Promise!vars
  <2>1. /\ store' = store /\ answer' = answer /\ pc[r] = "idle"
        /\ \A q \in Request \ {r} : key'[q] = key[q] /\ payload'[q] = payload[q] /\ url'[q] = url[q]
    BY <1>1 DEF Resend, Arrive, TypeOK
  <2>2. QED BY <2>1, QuietRequest, QuietPromise
<1>2. ASSUME NEW r \in Request, Reject(r) \/ QueueClash(r) \/ Crash(r)
      PROVE  UNCHANGED Promise!vars
  <2>1. /\ store' = store /\ UNCHANGED <<body, url>> /\ pc[r] # "done"
        /\ \E a \in {"rejected", "failed", "lost"} : Reply(r, a)
    BY <1>2 DEF Reject, QueueClash, Crash
  <2>2. QED BY <2>1, QuietReply, QuietPromise
<1>3. ASSUME NEW r \in Request, QueueNew(r)
      PROVE  UNCHANGED Promise!vars
  BY <1>3, QuietRequest, QuietPromise DEF QueueNew, body
<1>4. ASSUME NEW r \in Request, QueueDuplicate(r) \/ QueueMessage(r)
      PROVE  [Promise!Next]_(Promise!vars)
  BY <1>4, AnsweredPromise DEF QueueDuplicate, QueueMessage, Served
<1>5. ASSUME NEW r \in Request, Check(r)
      PROVE  [Promise!Next]_(Promise!vars)
  <2>1. pc[r] = "check" /\ store' = store /\ body' = body /\ key' = key /\ payload' = payload
    BY <1>5 DEF Check, body
  <2>2. CASE answer' = answer
    <3>1. url' = url \/ \E u : url' = [url EXCEPT ![r] = u]
      BY <1>5 DEF Check
    <3>2. \A q \in Request \ {r} : url'[q] = url[q]
      BY <3>1 DEF TypeOK
    <3>3. QED BY <2>1, <2>2, <3>2, QuietRequest, QuietPromise
  <2>3. CASE answer' # answer
    <3>1. /\ link[key[r]] # NoLink /\ ~SamePayload(r)
          /\ Reply(r, "conflict") /\ url' = url
      BY <1>5, <2>3 DEF Check
    <3>2. QED BY <2>1, <3>1, TellPromise DEF Promise!Next, Served
  <2>4. QED BY <2>2, <2>3
<1>6. ASSUME NEW k \in Key, Deliver(k)
      PROVE  UNCHANGED Promise!vars
  BY <1>6, QuietPromise DEF Deliver, Told, body
<1>7. CASE UNCHANGED vars
  BY <1>7, QuietPromise DEF vars, Told, body
<1>8. QED
  BY <1>1, <1>2, <1>3, <1>4, <1>5, <1>6, <1>7, InsertPromise, CallPromise, SavePromise, WebhookPromise
  DEF Next, Create, Queue

\* The creation keeps its promise: for any number of requests and keys it implements a
\* creation in which a key has one body and one charge, a payment is final, and an
\* answer with a URL or a conflict is true.
THEOREM CreationIsIdempotent == Spec => ImplementsCreation
<1>1. Init => Promise!Init /\ AnswerInv
  BY DEF Init, Promise!Init, AnswerInv, Told
<1>2. IInv /\ AnswerInv /\ [Next]_vars => AnswerInv'
  BY AnswerStep DEF IInv
<1>3. IInv /\ AnswerInv /\ [Next]_vars => [Promise!Next]_(Promise!vars)
  BY PromiseStep
<1>4. QED BY <1>1, <1>2, <1>3, Invariance, PTL DEF Spec, ImplementsCreation, Promise!Spec
=============================================================================
