---------------------- MODULE PaymentCorrelationProofs ----------------------
(* Proofs of the properties of PaymentCorrelation, for every value of its    *)
(* constants.                                                                *)
EXTENDS PaymentCorrelation, TLAPS

-----------------------------------------------------------------------------
(* Types                                                                    *)

\* A step of an event that stores nothing keeps the types.
LEMMA GotoType ==
    ASSUME TypeOK, NEW e \in Event, status[e] # "ABSENT", step[e] # "mark",
           NEW s \in {"internal", "provider", "reference"}, Goto(e, s) \/ Raise(e)
    PROVE  TypeOK'
<1>1. CASE Goto(e, s)
      BY <1>1 DEF Goto, TypeOK, links, history
<1>2. CASE Raise(e)
      BY <1>2 DEF Raise, TypeOK, links, history
<1> QED BY <1>1, <1>2

LEMMA FindType ==
    ASSUME TypeOK, NEW e \in Event, status[e] # "ABSENT", NEW l \in Link, Find(e, l)
    PROVE  TypeOK'
BY DEF Find, TypeOK, links, history

LEMMA SettleType ==
    ASSUME TypeOK, NEW e \in Event, status[e] # "ABSENT",
           NEW s \in {"PROCESSED", "IGNORED", "FAILED"}, Settle(e, s),
           marked' \in [Event -> Link \union {NoLink}]
    PROVE  TypeOK'
BY DEF Settle, TypeOK, links

\* Every variable keeps its type.
THEOREM TypeCorrect == Spec => []TypeOK
<1>1. Init => TypeOK
      BY ConstantsAssumption DEF Init, TypeOK
<1>2. ASSUME TypeOK, [Next]_vars PROVE TypeOK'
  <2>1. ASSUME NEW l \in Link, NEW r \in Reference, Insert(l, r) PROVE TypeOK'
        BY <1>2, ConstantsAssumption, <2>1 DEF Insert, TypeOK, work, history
  <2>2. ASSUME NEW l \in Link, Make(l) PROVE TypeOK'
        BY <1>2, <2>2 DEF Make, TypeOK, work, history
  <2>3. ASSUME NEW l \in Link, Delete(l) PROVE TypeOK'
        BY <1>2, <2>3 DEF Delete, Exists, TypeOK, work
  <2>4. ASSUME NEW l \in Link, NEW s \in {"plain", "known"}, SaveLink(l, s) PROVE TypeOK'
        BY <1>2, <2>4 DEF SaveLink, TypeOK, work, history
  <2>5. ASSUME NEW e \in Event, NEW p \in Payload, Receive(e, p) PROVE TypeOK'
        BY <1>2, <2>5 DEF Receive, Begin, TypeOK, links
  <2>6. ASSUME NEW e \in Event, Again(e) PROVE TypeOK'
        BY <1>2, <2>6, ConstantsAssumption DEF Again, Begin, TypeOK, links
  <2>7. ASSUME NEW e \in Event, Normalize(e) PROVE TypeOK'
    <3>1. status[e] # "ABSENT"
          BY <1>2, <2>7 DEF Normalize, TypeOK
    <3> QED BY <1>2, <2>7, <3>1, GotoType DEF Normalize
  <2>8. ASSUME NEW e \in Event, ByInternal(e) PROVE TypeOK'
    <3>1. status[e] # "ABSENT" /\ step[e] # "mark" /\ payload[e] \in Payload
          BY <1>2, <2>8 DEF ByInternal, TypeOK
    <3>2. \/ Raise(e) \/ Goto(e, "provider")
          \/ InternalId(payload[e]) = "id" /\ Find(e, payload[e].of)
          BY <2>8 DEF ByInternal
    <3>3. CASE InternalId(payload[e]) = "id" /\ Find(e, payload[e].of)
      <4>1. payload[e].of \in Link
            BY <3>1, <3>3 DEF Payload, InternalId
      <4> QED BY <1>2, <3>1, <3>3, <4>1, FindType
    <3> QED BY <1>2, <3>1, <3>2, <3>3, GotoType
  <2>9. ASSUME NEW e \in Event, ByProvider(e) PROVE TypeOK'
    <3>1. status[e] # "ABSENT" /\ step[e] # "mark" /\ payload[e] \in Payload
          BY <1>2, <2>9 DEF ByProvider, TypeOK
    <3>2. payload[e].named => payload[e].of \in Link
          BY <3>1 DEF Payload
    <3> QED BY <1>2, <2>9, <3>1, <3>2, GotoType, FindType DEF ByProvider
  <2>10. ASSUME NEW e \in Event, ByReference(e) PROVE TypeOK'
    <3>1. status[e] # "ABSENT" /\ step[e] # "mark"
          BY <1>2, <2>10 DEF ByReference, TypeOK
    <3>2. CASE Settle(e, "IGNORED") /\ UNCHANGED marked
          BY <1>2, <3>1, <3>2, SettleType DEF TypeOK
    <3>3. ASSUME NEW l \in Link, Find(e, l) PROVE TypeOK'
          BY <1>2, <3>1, <3>3, FindType
    <3> QED BY <2>10, <3>2, <3>3 DEF ByReference, Chosen, Candidates
  <2>11. ASSUME NEW e \in Event, Mark(e) PROVE TypeOK'
    <3>1. status[e] # "ABSENT" /\ found[e] \in Link
          BY <1>2, <2>11 DEF Mark, TypeOK
    <3>2. marked' \in [Event -> Link \union {NoLink}]
          BY <1>2, <2>11, <3>1 DEF Mark, TypeOK
    <3> QED BY <1>2, <2>11, <3>1, <3>2, SettleType DEF Mark
  <2>12. CASE UNCHANGED vars
        BY <1>2, <2>12 DEF vars, TypeOK, links, work, history
  <2> QED BY <1>2, <2>1, <2>2, <2>3, <2>4, <2>5, <2>6, <2>7, <2>8, <2>9, <2>10, <2>11, <2>12
          DEF Next
<1> QED BY <1>1, <1>2, PTL DEF Spec

-----------------------------------------------------------------------------
(* One event                                                                *)

\* The link l is the event's own, or the event's own row was missing and it names l by
\* its reference.
Explained(e, l) ==
    /\ ref[l] # NoReference
    /\ payload[e].of # l => ~kept[e] /\ payload[e].code = ref[l]

\* Nothing in the payload singles the event's row out.
Unnamed(e) ==
    /\ payload[e].metadata # "id"
    /\ payload[e].metadata = "null" => payload[e].order_metadata # "id"
    /\ ~(payload[e].named /\ known[e])
    /\ \/ payload[e].code = NoReference
       \/ \E l \in Link \ {payload[e].of} : ref[l] = payload[e].code

\* What holds of an event between the lookups: the provider had made its link before it,
\* a row that was there all along still is, what it found is explained, and what it did
\* not find could not be found.
EventInv(e) ==
    /\ status[e] # "ABSENT" /\ payload[e].of # NoLink =>
          payload[e].of \in made /\ payload[e].code \in {ref[payload[e].of], NoReference}
    /\ kept[e] => status[e] # "ABSENT" /\ payload[e].of # NoLink
    /\ step[e] # "idle" /\ kept[e] => row[payload[e].of] # "none"
    /\ step[e] # "idle" /\ kept[e] /\ known[e] => row[payload[e].of] = "known"
    /\ step[e] # "idle" => status[e] \in {"RECEIVED", "FAILED"} /\ marked[e] = NoLink
    /\ step[e] = "mark" => Explained(e, found[e])
    /\ marked[e] # NoLink => status[e] # "ABSENT" /\ Explained(e, marked[e])
    /\ step[e] \in {"provider", "reference"} /\ kept[e] => InternalId(payload[e]) # "id"
    /\ step[e] = "reference" /\ kept[e] => ~(payload[e].named /\ known[e])
    /\ status[e] = "IGNORED" /\ kept[e] => Unnamed(e)

\* What every step keeps of the links: what the provider has made, a reference, and the
\* provider's id in a row that is not deleted.
LinksKept ==
    \A l \in Link :
        /\ ref[l] # NoReference => ref'[l] = ref[l]
        /\ l \in made => l \in made'
        /\ row[l] = "known" => row'[l] \in {"known", "none"}

\* And of an event that it is not a step of, but which may lose its row by it.
Bystander(e) ==
    /\ payload'[e] = payload[e] /\ status'[e] = status[e] /\ step'[e] = step[e]
    /\ found'[e] = found[e] /\ marked'[e] = marked[e] /\ known'[e] = known[e]
    /\ kept'[e] => kept[e]
    /\ step[e] # "idle" /\ kept'[e] /\ row[payload[e].of] # "none" => row'[payload[e].of] # "none"

\* Such an event keeps its invariant.
LEMMA Untouched ==
    ASSUME TypeOK, NEW e \in Event, EventInv(e), LinksKept, Bystander(e)
    PROVE  EventInv(e)'
<1>1. status[e] # "ABSENT" => payload[e] \in Payload /\ payload[e].of \in Link \union {NoLink}
      BY DEF TypeOK, Payload
<1>2. step[e] # "idle" => status[e] # "ABSENT"
      BY DEF TypeOK
<1>3. ASSUME status[e] # "ABSENT", payload[e].of # NoLink
      PROVE  /\ payload[e].of \in made /\ payload[e].of \in made'
             /\ ref'[payload[e].of] = ref[payload[e].of]
      BY <1>1, <1>3 DEF EventInv, LinksKept, TypeOK
<1>4. ASSUME NEW l \in Link, Explained(e, l) PROVE Explained(e, l)'
      BY <1>4 DEF Explained, LinksKept, Bystander
<1>5. ASSUME Unnamed(e) PROVE Unnamed(e)'
      BY <1>5 DEF Unnamed, LinksKept, Bystander
<1>a. (status[e] # "ABSENT" /\ payload[e].of # NoLink =>
          payload[e].of \in made /\ payload[e].code \in {ref[payload[e].of], NoReference})'
      BY <1>3 DEF EventInv, Bystander
<1>b. /\ (kept[e] => status[e] # "ABSENT" /\ payload[e].of # NoLink)'
      /\ (step[e] # "idle" => status[e] \in {"RECEIVED", "FAILED"} /\ marked[e] = NoLink)'
      /\ (step[e] # "idle" /\ kept[e] => row[payload[e].of] # "none")'
      BY DEF EventInv, Bystander
<1>c. (step[e] # "idle" /\ kept[e] /\ known[e] => row[payload[e].of] = "known")'
  <2>1. SUFFICES ASSUME step'[e] # "idle", kept'[e], known'[e]
                 PROVE  row'[payload'[e].of] = "known"
        OBVIOUS
  <2>2. /\ step[e] # "idle" /\ kept[e] /\ known[e] /\ row[payload[e].of] = "known"
        /\ payload'[e] = payload[e] /\ row'[payload[e].of] # "none"
        BY <2>1 DEF EventInv, Bystander
  <2>3. payload[e].of \in Link
        BY <1>1, <1>2, <2>2 DEF EventInv
  <2> QED BY <2>2, <2>3 DEF LinksKept
<1>d. (step[e] = "mark" => Explained(e, found[e]))'
  <2>1. SUFFICES ASSUME step'[e] = "mark" PROVE Explained(e, found[e])'
        OBVIOUS
  <2>2. step[e] = "mark" /\ found'[e] = found[e]
        BY <2>1 DEF Bystander
  <2>3. PICK l \in Link : l = found[e]
        BY <2>2 DEF TypeOK
  <2>4. Explained(e, l)'
        BY <1>4, <2>2, <2>3 DEF EventInv
  <2> QED BY <2>2, <2>3, <2>4 DEF Explained
<1>e. (marked[e] # NoLink => status[e] # "ABSENT" /\ Explained(e, marked[e]))'
  <2>1. SUFFICES ASSUME marked'[e] # NoLink PROVE status'[e] # "ABSENT" /\ Explained(e, marked[e])'
        OBVIOUS
  <2>2. marked[e] # NoLink /\ marked'[e] = marked[e]
        BY <2>1 DEF Bystander
  <2>3. PICK l \in Link : l = marked[e]
        BY <2>2 DEF TypeOK
  <2>4. status'[e] # "ABSENT" /\ Explained(e, l)'
        BY <1>4, <2>2, <2>3 DEF EventInv, Bystander
  <2> QED BY <2>2, <2>3, <2>4 DEF Explained
<1>f. /\ (step[e] \in {"provider", "reference"} /\ kept[e] => InternalId(payload[e]) # "id")'
      /\ (step[e] = "reference" /\ kept[e] => ~(payload[e].named /\ known[e]))'
      BY DEF EventInv, Bystander, InternalId
<1>g. (status[e] = "IGNORED" /\ kept[e] => Unnamed(e))'
      BY <1>5 DEF EventInv, Bystander
<1> QED BY <1>a, <1>b, <1>c, <1>d, <1>e, <1>f, <1>g DEF EventInv

-----------------------------------------------------------------------------
(* The steps                                                                *)

\* The links do not move while an event is processed.
LEMMA LinksUnchanged == ASSUME UNCHANGED links PROVE LinksKept
BY DEF LinksKept, links

\* A step of one event, which leaves the others alone.
Alone(e) == \A f \in Event \ {e} : Bystander(f)

\* It goes on or raises: its invariant holds if what it has not found is not there.
LEMMA GotoKeeps ==
    ASSUME TypeOK, NEW e \in Event, EventInv(e), step[e] # "idle",
           NEW s \in {"internal", "provider", "reference"},
           Goto(e, s) \/ Raise(e),
           Goto(e, s) /\ s \in {"provider", "reference"} /\ kept[e] => InternalId(payload[e]) # "id",
           Goto(e, s) /\ s = "reference" /\ kept[e] => ~(payload[e].named /\ known[e])
    PROVE  EventInv(e)' /\ Alone(e) /\ LinksKept
<1>1. /\ UNCHANGED <<links, payload, status, found, marked, known, kept>>
      /\ \E t \in {s, "idle"} : step' = [step EXCEPT ![e] = t]
      BY DEF Goto, Raise, history
<1>2. (step'[e] = s /\ Goto(e, s)) \/ step'[e] = "idle"
      BY DEF Goto, Raise, TypeOK
<1>3. Alone(e) /\ LinksKept
      BY <1>1, LinksUnchanged DEF Alone, Bystander, links, TypeOK
<1>4. (InternalId(payload[e]) = InternalId(payload[e])') /\ (Unnamed(e)' <=> Unnamed(e))
      BY <1>1 DEF InternalId, Unnamed, links
<1> QED BY <1>1, <1>2, <1>3, <1>4 DEF EventInv, links

\* It finds a link that explains it.
LEMMA FindKeeps ==
    ASSUME TypeOK, NEW e \in Event, EventInv(e), step[e] # "idle",
           NEW l \in Link, Explained(e, l), Find(e, l)
    PROVE  EventInv(e)' /\ Alone(e) /\ LinksKept
<1>1. /\ UNCHANGED <<links, payload, status, marked, known, kept>>
      /\ step' = [step EXCEPT ![e] = "mark"] /\ found' = [found EXCEPT ![e] = l]
      BY DEF Find, history
<1>2. step'[e] = "mark" /\ found'[e] = l
      BY <1>1 DEF TypeOK
<1>3. Alone(e) /\ LinksKept
      BY <1>1, LinksUnchanged DEF Alone, Bystander, links, TypeOK
<1>4. Explained(e, found[e])'
      BY <1>1, <1>2 DEF Explained, links
<1> QED BY <1>1, <1>2, <1>3, <1>4 DEF EventInv, links

\* It is settled, by a link that explains it or for want of one.
LEMMA SettleKeeps ==
    ASSUME TypeOK, NEW e \in Event, EventInv(e), step[e] # "idle",
           NEW s \in {"PROCESSED", "IGNORED", "FAILED"}, Settle(e, s),
           s = "IGNORED" /\ kept[e] => Unnamed(e),
           \/ UNCHANGED marked
           \/ \E k \in Link : Explained(e, k) /\ marked' = [marked EXCEPT ![e] = k]
    PROVE  EventInv(e)' /\ Alone(e) /\ LinksKept
<1>1. /\ UNCHANGED <<links, payload, known, kept>>
      /\ step' = [step EXCEPT ![e] = "idle"] /\ found' = [found EXCEPT ![e] = NoLink]
      /\ status' = [status EXCEPT ![e] = s]
      /\ \A f \in Event \ {e} : marked'[f] = marked[f]
      BY DEF Settle, TypeOK
<1>2. step'[e] = "idle" /\ status'[e] = s /\ status[e] # "ABSENT"
      BY <1>1 DEF TypeOK
<1>3. Alone(e) /\ LinksKept
      BY <1>1, LinksUnchanged DEF Alone, Bystander, links, TypeOK
<1>4. ASSUME marked'[e] # NoLink PROVE Explained(e, marked[e])'
  <2>1. PICK k \in Link : Explained(e, k) /\ marked' = [marked EXCEPT ![e] = k]
        BY <1>4 DEF EventInv
  <2>2. marked'[e] = k
        BY <2>1 DEF TypeOK
  <2> QED BY <1>1, <2>1, <2>2 DEF Explained, links
<1>5. Unnamed(e)' <=> Unnamed(e)
      BY <1>1 DEF Unnamed, links
<1> QED BY <1>1, <1>2, <1>3, <1>4, <1>5 DEF EventInv, links

EventsInv == \A e \in Event : EventInv(e)

\* A step of one event keeps the invariant of all.
LEMMA OneKeepsAll ==
    ASSUME TypeOK, EventsInv, NEW e \in Event, EventInv(e)', Alone(e), LinksKept
    PROVE  EventsInv'
<1>1. ASSUME NEW f \in Event, f # e PROVE EventInv(f)'
      BY <1>1, Untouched DEF EventsInv, Alone
<1> QED BY <1>1 DEF EventsInv

\* A step of the links, which is no step of an event.
LinkStep(l) ==
    \/ \E r \in Reference : Insert(l, r)
    \/ Make(l) \/ Delete(l)
    \/ \E s \in {"plain", "known"} : SaveLink(l, s)

\* It is a deletion that takes a row away from an event, and no other step.
LEMMA LinkStepKeeps ==
    ASSUME TypeOK, NEW l \in Link, LinkStep(l)
    PROVE  LinksKept /\ \A e \in Event : Bystander(e)
<1>1. ASSUME NEW r \in Reference, Insert(l, r) PROVE LinksKept /\ \A e \in Event : Bystander(e)
      BY <1>1 DEF Insert, LinksKept, Bystander, TypeOK, work, history
<1>2. CASE Make(l)
      BY <1>2 DEF Make, LinksKept, Bystander, TypeOK, work, history
<1>3. CASE Delete(l)
  <2>1. LinksKept
        BY <1>3 DEF Delete, LinksKept, TypeOK
  <2>2. ASSUME NEW e \in Event PROVE Bystander(e)
    <3>1. /\ UNCHANGED <<payload, status, step, found, marked, known>>
          /\ kept'[e] = (kept[e] /\ (step[e] # "idle" => payload[e].of # l))
          /\ row' = [row EXCEPT ![l] = "none"]
          BY <1>3 DEF Delete, work
    <3>2. \A k : k # l => row'[k] = row[k]
          BY <3>1 DEF TypeOK
    <3> QED BY <3>1, <3>2 DEF Bystander
  <2> QED BY <2>1, <2>2
<1>4. ASSUME NEW s \in {"plain", "known"}, SaveLink(l, s) PROVE LinksKept /\ \A e \in Event : Bystander(e)
      BY <1>4 DEF SaveLink, LinksKept, Bystander, TypeOK, work, history
<1> QED BY <1>1, <1>2, <1>3, <1>4 DEF LinkStep

\* The invariant that explains both properties.
LEMMA EventsHold == Spec => []EventsInv
<1>1. Init => EventsInv
  <2>1. SUFFICES ASSUME Init, NEW e \in Event PROVE EventInv(e)
        BY DEF EventsInv
  <2> QED BY <2>1 DEF Init, EventInv
<1>2. ASSUME TypeOK, EventsInv, [Next]_vars PROVE EventsInv'
  <2>1. ASSUME NEW l \in Link, LinkStep(l) PROVE EventsInv'
        BY <1>2, <2>1, LinkStepKeeps, Untouched DEF EventsInv
  <2>2. ASSUME NEW e \in Event, NEW p \in Payload, Receive(e, p) PROVE EventsInv'
    <3>1. /\ UNCHANGED <<links, found>>
          /\ payload' = [payload EXCEPT ![e] = p]
          /\ status' = [status EXCEPT ![e] = "RECEIVED"]
          /\ step' = [step EXCEPT ![e] = "normalize"]
          /\ marked' = [marked EXCEPT ![e] = NoLink]
          /\ known' = [known EXCEPT ![e] = p.of # NoLink /\ row[p.of] = "known"]
          /\ kept' = [kept EXCEPT ![e] = p.of # NoLink /\ row[p.of] # "none"]
          BY <2>2 DEF Receive, Begin, Exists
    <3>2. /\ payload'[e] = p /\ status'[e] = "RECEIVED" /\ step'[e] = "normalize"
          /\ marked'[e] = NoLink
          /\ known'[e] => row[p.of] = "known"
          /\ kept'[e] => p.of # NoLink /\ row[p.of] # "none"
          BY <1>2, <3>1 DEF TypeOK
    <3>3. p.of # NoLink => p.of \in made /\ p.code \in {ref[p.of], NoReference}
          BY <2>2 DEF Receive, Sendable
    <3>4. EventInv(e)'
      <4>1. UNCHANGED <<row, made, ref>>
            BY <3>1 DEF links
      <4> QED BY <3>2, <3>3, <4>1 DEF EventInv
    <3>5. Alone(e) /\ LinksKept
          BY <1>2, <3>1, LinksUnchanged DEF Alone, Bystander, links, TypeOK
    <3> QED BY <1>2, <3>4, <3>5, OneKeepsAll
  <2>3. ASSUME NEW e \in Event, Again(e) PROVE EventsInv'
    <3>1. /\ UNCHANGED <<links, payload, found>>
          /\ status' = [status EXCEPT ![e] = IF @ = "FAILED" THEN @ ELSE "RECEIVED"]
          /\ step' = [step EXCEPT ![e] = "normalize"]
          /\ marked' = [marked EXCEPT ![e] = NoLink]
          /\ known' = [known EXCEPT ![e] = payload[e].of # NoLink /\ row[payload[e].of] = "known"]
          /\ kept' = [kept EXCEPT ![e] = payload[e].of # NoLink /\ row[payload[e].of] # "none"]
          /\ status[e] # "ABSENT"
          BY <2>3 DEF Again, Begin, Exists
    <3>2. /\ status'[e] \in {"RECEIVED", "FAILED"} /\ step'[e] = "normalize"
          /\ marked'[e] = NoLink
          /\ known'[e] = (payload[e].of # NoLink /\ row[payload[e].of] = "known")
          /\ kept'[e] = (payload[e].of # NoLink /\ row[payload[e].of] # "none")
          BY <1>2, <3>1 DEF TypeOK
    <3>3. EventInv(e)
          BY <1>2 DEF EventsInv
    <3>4. EventInv(e)'
          BY <3>1, <3>2, <3>3 DEF EventInv, links
    <3>5. Alone(e) /\ LinksKept
          BY <1>2, <3>1, LinksUnchanged DEF Alone, Bystander, links, TypeOK
    <3> QED BY <1>2, <3>4, <3>5, OneKeepsAll
  <2>4. ASSUME NEW e \in Event,
               Normalize(e) \/ ByInternal(e) \/ ByProvider(e) \/ ByReference(e) \/ Mark(e)
        PROVE  EventInv(e)' /\ Alone(e) /\ LinksKept
    <3>1. EventInv(e) /\ step[e] # "idle"
          BY <1>2, <2>4 DEF EventsInv, Normalize, ByInternal, ByProvider, ByReference, Mark
    <3>2. payload[e] \in Payload /\ payload[e].of \in Link \union {NoLink} /\ status[e] # "ABSENT"
          BY <1>2, <3>1 DEF TypeOK, Payload
    <3>3. payload[e].of # NoLink =>
             /\ payload[e].of \in Link /\ ref[payload[e].of] # NoReference
             /\ payload[e].code \in {ref[payload[e].of], NoReference}
          BY <1>2, <3>1, <3>2 DEF EventInv, TypeOK
    <3>4. kept[e] => payload[e].of # NoLink /\ row[payload[e].of] # "none"
          BY <3>1 DEF EventInv
    <3>5. CASE Normalize(e)
          BY <1>2, <3>1, <3>5, GotoKeeps DEF Normalize
    <3>6. CASE ByInternal(e)
      <4>1. CASE Raise(e)
            BY <1>2, <3>1, <4>1, <3>6, GotoKeeps DEF Raise, Goto, ByInternal, TypeOK
      <4>2. CASE InternalId(payload[e]) = "id" /\ Find(e, payload[e].of)
        <5>1. payload[e].of # NoLink
              BY <3>2, <4>2 DEF Payload, InternalId
        <5>2. Explained(e, payload[e].of)
              BY <3>3, <5>1 DEF Explained
        <5> QED BY <1>2, <3>1, <3>3, <4>2, <5>1, <5>2, FindKeeps
      <4>3. CASE ~(InternalId(payload[e]) = "id" /\ Exists(payload[e].of)) /\ Goto(e, "provider")
        <5>1. kept[e] => InternalId(payload[e]) # "id"
              BY <3>4, <4>3 DEF Exists
        <5> QED BY <1>2, <3>1, <4>3, <5>1, GotoKeeps
      <4> QED BY <3>6, <4>1, <4>2, <4>3 DEF ByInternal
    <3>7. CASE ByProvider(e)
      <4>1. CASE payload[e].named /\ Find(e, payload[e].of)
        <5>1. payload[e].of # NoLink
              BY <3>2, <4>1 DEF Payload
        <5>2. Explained(e, payload[e].of)
              BY <3>3, <5>1 DEF Explained
        <5> QED BY <1>2, <3>1, <3>3, <4>1, <5>1, <5>2, FindKeeps
      <4>2. CASE ~(payload[e].named /\ row[payload[e].of] = "known") /\ Goto(e, "reference")
        <5>1. step[e] = "provider"
              BY <3>7 DEF ByProvider
        <5>2. kept[e] => InternalId(payload[e]) # "id" /\ ~(payload[e].named /\ known[e])
              BY <3>1, <4>2, <5>1 DEF EventInv
        <5> QED BY <1>2, <3>1, <4>2, <5>2, GotoKeeps
      <4> QED BY <3>7, <4>1, <4>2 DEF ByProvider
    <3>8. CASE ByReference(e)
      <4>1. step[e] = "reference"
            BY <3>8 DEF ByReference
      <4>2. ASSUME kept[e], payload[e].code # NoReference PROVE payload[e].of \in Candidates(e)
            BY <3>3, <3>4, <4>2 DEF Candidates, Exists
      <4>3. ASSUME NEW l \in Link, l \in Chosen(e), Find(e, l)
            PROVE  EventInv(e)' /\ Alone(e) /\ LinksKept
        <5>1. Candidates(e) = {l} /\ row[l] # "none" /\ payload[e].code = ref[l]
              BY <4>3 DEF Chosen, Candidates, Exists
        <5>2. ref[l] # NoReference
              BY <1>2, <5>1 DEF TypeOK
        <5>3. Explained(e, l)
              BY <4>2, <5>1, <5>2 DEF Explained
        <5> QED BY <1>2, <3>1, <4>3, <5>3, FindKeeps
      <4>4. CASE Chosen(e) = {} /\ Settle(e, "IGNORED") /\ UNCHANGED marked
        <5>1. ASSUME kept[e] PROVE Unnamed(e)
          <6>1. InternalId(payload[e]) # "id" /\ ~(payload[e].named /\ known[e])
                BY <3>1, <4>1, <5>1 DEF EventInv
          <6>2. ASSUME payload[e].code # NoReference
                PROVE  \E l \in Link \ {payload[e].of} : ref[l] = payload[e].code
            <7>1. payload[e].of \in Candidates(e)
                  BY <4>2, <5>1, <6>2
            <7>2. Candidates(e) # {payload[e].of}
                  BY <4>4, <7>1 DEF Chosen
            <7>3. PICK l \in Candidates(e) : l # payload[e].of
                  BY <7>1, <7>2
            <7> QED BY <7>3 DEF Candidates
          <6> QED BY <6>1, <6>2 DEF Unnamed, InternalId
        <5> QED BY <1>2, <3>1, <4>4, <5>1, SettleKeeps
      <4> QED BY <3>8, <4>3, <4>4 DEF ByReference, Chosen, Candidates
    <3>9. CASE Mark(e)
      <4>1. Explained(e, found[e]) /\ found[e] \in Link
            BY <1>2, <3>1, <3>9 DEF EventInv, Mark, TypeOK
      <4> QED BY <1>2, <3>1, <3>9, <4>1, SettleKeeps DEF Mark
    <3> QED BY <2>4, <3>5, <3>6, <3>7, <3>8, <3>9
  <2>5. CASE UNCHANGED vars
    <3>1. LinksKept /\ \A e \in Event : Bystander(e)
          BY <2>5, LinksUnchanged DEF vars, links, work, history, Bystander
    <3> QED BY <1>2, <3>1, Untouched DEF EventsInv
  <2> QED BY <1>2, <2>1, <2>2, <2>3, <2>4, <2>5, OneKeepsAll DEF Next, LinkStep
<1> QED BY <1>1, <1>2, TypeCorrect, PTL DEF Spec

\* A payment marks a link that is not its own only for want of its own row.
THEOREM ForeignOnlyOrphans == Spec => []ForeignIsOrphan
<1>1. EventsInv => ForeignIsOrphan
      BY DEF EventsInv, EventInv, Explained, ForeignIsOrphan
<1> QED BY <1>1, EventsHold, PTL

\* An event whose row is there all along is ignored for want of a link only if nothing in
\* it names the row.
THEOREM IgnoredExplained == Spec => []IgnoredIsExplained
<1>1. EventsInv => IgnoredIsExplained
      BY DEF EventsInv, EventInv, Unnamed, IgnoredIsExplained
<1> QED BY <1>1, EventsHold, PTL

-----------------------------------------------------------------------------
(* What is left unsettled                                                   *)

\* What a lookup that did not raise says of the payload, and a status of its end.
StallInv(e) ==
    /\ step[e] = "internal" => ~payload[e].null
    /\ step[e] \in {"provider", "reference", "mark"} => ~Raises(payload[e])
    /\ step[e] = "idle" /\ status[e] = "RECEIVED" => Raises(payload[e]) /\ marked[e] = NoLink
    /\ status[e] = "FAILED" => ~Raises(payload[e])
    /\ step[e] = "idle" /\ status[e] = "PROCESSED" => marked[e] # NoLink

StallsInv == \A e \in Event : StallInv(e)

\* An event that takes no part in a step keeps it.
LEMMA UntouchedStall ==
    ASSUME NEW e \in Event, StallInv(e), Bystander(e)
    PROVE  StallInv(e)'
BY DEF StallInv, Bystander, Raises, InternalId

\* Each lookup goes on only if it did not raise.
LEMMA StallStep ==
    ASSUME TypeOK, EventsInv, StallsInv, [Next]_vars
    PROVE  StallsInv'
<1>1. ASSUME NEW l \in Link, LinkStep(l) PROVE StallsInv'
      BY <1>1, LinkStepKeeps, UntouchedStall DEF StallsInv
<1>2. ASSUME NEW e \in Event, Alone(e), StallInv(e)' PROVE StallsInv'
  <2>1. ASSUME NEW f \in Event, f # e PROVE StallInv(f)'
        BY <1>2, <2>1, UntouchedStall DEF StallsInv, Alone
  <2> QED BY <1>2, <2>1 DEF StallsInv
<1>3. ASSUME NEW e \in Event,
             Again(e) \/ \E p \in Payload : Receive(e, p)
      PROVE  StallsInv'
  <2>1. /\ UNCHANGED <<links, found>>
        /\ step' = [step EXCEPT ![e] = "normalize"]
        /\ marked' = [marked EXCEPT ![e] = NoLink]
        /\ \E b \in BOOLEAN : known' = [known EXCEPT ![e] = b]
        /\ \E b \in BOOLEAN : kept' = [kept EXCEPT ![e] = b]
        BY <1>3 DEF Again, Receive, Begin, Exists
  <2>2. \/ \E p \in Payload : /\ payload' = [payload EXCEPT ![e] = p]
                              /\ status' = [status EXCEPT ![e] = "RECEIVED"]
        \/ /\ UNCHANGED payload
           /\ status' = [status EXCEPT ![e] = IF @ = "FAILED" THEN @ ELSE "RECEIVED"]
        BY <1>3 DEF Again, Receive
  <2>3. /\ step'[e] = "normalize"
        /\ \/ status'[e] = "RECEIVED"
           \/ status'[e] = "FAILED" /\ status[e] = "FAILED" /\ payload'[e] = payload[e]
        BY <2>1, <2>2 DEF TypeOK
  <2>4. StallInv(e)'
        BY <2>3 DEF StallInv, StallsInv, Raises, InternalId
  <2>5. Alone(e)
        BY <2>1, <2>2 DEF Alone, Bystander, links, TypeOK
  <2> QED BY <1>2, <2>4, <2>5
<1>4. ASSUME NEW e \in Event,
             Normalize(e) \/ ByInternal(e) \/ ByProvider(e) \/ ByReference(e) \/ Mark(e)
      PROVE  StallsInv'
  <2>1. /\ UNCHANGED <<links, payload, known, kept>>
        /\ step[e] # "idle" /\ StallInv(e) /\ marked[e] = NoLink
        /\ status[e] \in {"RECEIVED", "FAILED"}
        BY <1>4 DEF Normalize, ByInternal, ByProvider, ByReference, Mark, Goto, Raise, Find,
           Settle, history, StallsInv, EventsInv, EventInv
  <2>2. Raises(payload[e])' <=> Raises(payload[e])
        BY <2>1 DEF Raises, InternalId
  <2>3. ASSUME NEW s \in {"internal", "provider", "reference"}, Goto(e, s),
               s = "internal" => ~payload[e].null, s # "internal" => ~Raises(payload[e])
        PROVE  StallInv(e)' /\ Alone(e)
        BY <2>1, <2>2, <2>3 DEF Goto, StallInv, Alone, Bystander, TypeOK, history, links
  <2>4. ASSUME Raise(e), Raises(payload[e]) PROVE StallInv(e)' /\ Alone(e)
        BY <2>1, <2>2, <2>4 DEF Raise, StallInv, Alone, Bystander, TypeOK, history, links
  <2>5. ASSUME NEW l \in Link, Find(e, l), ~Raises(payload[e]) PROVE StallInv(e)' /\ Alone(e)
        BY <2>1, <2>2, <2>5 DEF Find, StallInv, Alone, Bystander, TypeOK, history, links
  <2>6. ASSUME NEW s \in {"PROCESSED", "IGNORED", "FAILED"}, Settle(e, s), ~Raises(payload[e]),
               \/ s # "PROCESSED" /\ UNCHANGED marked
               \/ \E k \in Link : marked' = [marked EXCEPT ![e] = k]
        PROVE  StallInv(e)' /\ Alone(e)
    <3>1. /\ status'[e] = s /\ step'[e] = "idle"
          /\ s = "PROCESSED" => marked'[e] # NoLink
          BY <2>6, ConstantsAssumption DEF Settle, TypeOK
    <3>2. StallInv(e)'
          BY <2>1, <2>2, <2>6, <3>1 DEF StallInv
    <3>3. Alone(e)
          BY <2>1, <2>6 DEF Settle, Alone, Bystander, TypeOK, links
    <3> QED BY <3>2, <3>3
  <2>7. StallInv(e)' /\ Alone(e)
    <3>1. CASE Normalize(e)
          BY <2>3, <2>4, <3>1 DEF Normalize, Raises
    <3>2. CASE ByInternal(e)
      <4>1. ~payload[e].null
            BY <2>1, <3>2 DEF ByInternal, StallInv
      <4>2. CASE InternalId(payload[e]) = "bad"
            BY <2>4, <3>2, <4>2 DEF ByInternal, Raises
      <4>3. CASE InternalId(payload[e]) # "bad"
        <5>1. ~Raises(payload[e])
              BY <4>1, <4>3 DEF Raises
        <5>2. payload[e] \in Payload
              BY <2>1 DEF TypeOK
        <5>3. \/ Goto(e, "provider")
              \/ InternalId(payload[e]) = "id" /\ Find(e, payload[e].of)
              BY <3>2, <4>3 DEF ByInternal
        <5>4. InternalId(payload[e]) = "id" => payload[e].of \in Link
              BY <5>2 DEF Payload, InternalId
        <5> QED BY <2>3, <2>5, <5>1, <5>3, <5>4
      <4> QED BY <4>2, <4>3
    <3>3. CASE ByProvider(e)
      <4>1. ~Raises(payload[e])
            BY <2>1, <3>3 DEF ByProvider, StallInv
      <4>2. payload[e].named => payload[e].of \in Link
            BY <2>1 DEF TypeOK, Payload
      <4> QED BY <2>3, <2>5, <3>3, <4>1, <4>2 DEF ByProvider
    <3>4. CASE ByReference(e)
      <4>1. ~Raises(payload[e])
            BY <2>1, <3>4 DEF ByReference, StallInv
      <4> QED BY <2>5, <2>6, <3>4, <4>1 DEF ByReference, Chosen, Candidates
    <3>5. CASE Mark(e)
      <4>1. ~Raises(payload[e]) /\ found[e] \in Link
            BY <2>1, <3>5 DEF Mark, StallInv, TypeOK
      <4> QED BY <2>6, <3>5, <4>1 DEF Mark
    <3> QED BY <1>4, <3>1, <3>2, <3>3, <3>4, <3>5
  <2> QED BY <1>2, <2>7
<1>5. CASE UNCHANGED vars
      BY <1>5, UntouchedStall DEF vars, links, history, work, StallsInv, Bystander
<1> QED BY <1>1, <1>3, <1>4, <1>5 DEF Next, LinkStep

\* Whatever order rows and lookups come in, and whatever fails in the handlers, an event is
\* left RECEIVED only by a payload that raises before the try, and FAILED or PROCESSED
\* only by one that does not.
THEOREM UnsettledExplained == Spec => []UnsettledIsExplained
<1>1. Init => StallsInv
      BY DEF Init, StallsInv, StallInv
<1>2. TypeOK /\ EventsInv /\ StallsInv /\ [Next]_vars => StallsInv'
      BY StallStep
<1>3. StallsInv => UnsettledIsExplained
      BY DEF StallsInv, StallInv, UnsettledIsExplained
<1> QED BY <1>1, <1>2, <1>3, EventsHold, TypeCorrect, PTL DEF Spec
=============================================================================
