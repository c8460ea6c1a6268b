--------------------------- MODULE RateLimitProofs ---------------------------
(***************************************************************************)
(* Theorems of RateLimit, for any number of processes, clients and losses  *)
(* and any limit and window, if a request is counted within a second of    *)
(* its look at the clock, which is the margin in the entry's time-out.     *)
(***************************************************************************)
EXTENDS RateLimit, FiniteSetTheorems, TLAPS

\* A request in hand is some client's, and was asked for in the window of its key.
RequestInv ==
    \A p \in Process :
        pc[p] # "idle" =>
            /\ client[p] \in Client
            /\ key[p] <= asked[p] /\ asked[p] < key[p] + Window
            /\ asked[p] <= now /\ now <= asked[p] + MaxDelay

ClockInv == window <= now /\ now < window + Window

\* An entry outlives its window by more than the time a request may be late.
EntryInv ==
    \A p \in Process, c \in Client, n \in Time :
        count[p][c][n] > 0 => n + Window + 1 <= expiry[p][c][n]

TypeInv == TypeOK /\ RequestInv /\ ClockInv /\ EntryInv

\* The second n begins a window.
Multiple(n) == \E k \in Nat : n = k * Window

\* Keys are made of windows that have begun, and only their counters have entries.
KeyInv ==
    /\ Multiple(window)
    /\ \A p \in Process : pc[p] # "idle" => Multiple(key[p]) /\ key[p] <= window
    /\ \A p \in Process, c \in Client, n \in Time :
          /\ since[p][c][n] <= losses
          /\ n > window => count[p][c][n] = 0 /\ since[p][c][n] = 0

\* A request let through was the first to be given its number since its counter was
\* last lost, and is counted still if the counter was not lost again.
CountedOnce(p, c, i) ==
    LET r == passed[p][c][i]
    IN  /\ Multiple(r.key) /\ r.key <= window
        /\ r.key <= r.at /\ r.at <= r.key + Window
        /\ r.number \in 1..MaxRequests
        /\ r.since <= since[p][c][r.key]
        /\ r.since = since[p][c][r.key] => r.number <= count[p][c][r.key]
        /\ \A j \in DOMAIN passed[p][c] :
              LET s == passed[p][c][j]
              IN  r.key = s.key /\ r.since = s.since /\ r.number = s.number => i = j

PassageInv ==
    \A p \in Process, c \in Client : \A i \in DOMAIN passed[p][c] : CountedOnce(p, c, i)

\* A counter that requests may still be counted with.
Usable(p, c, n) == n >= window \/ (pc[p] # "idle" /\ client[p] = c /\ key[p] = n)

\* A counter that may still be used, or a request let through, dates from loss l.
Dates(p, c, n, l) ==
    \/ Usable(p, c, n) /\ since[p][c][n] = l
    \/ \E i \in DOMAIN passed[p][c] : passed[p][c][i].key = n /\ passed[p][c][i].since = l

\* Each loss lets one counter of a client start again, not several: the other counters
\* that a process loses with it are of windows it will no longer count in.
LossInv ==
    \A c \in Client, p, q \in Process, m, n \in Time, l \in 1..MaxLosses :
        Dates(p, c, m, l) /\ Dates(q, c, n, l) => p = q /\ m = n

IInv == TypeInv /\ KeyInv /\ PassageInv /\ LossInv

Table == [Process -> [Client -> [Time -> Nat]]]

-----------------------------------------------------------------------------
(* Type correctness                                                         *)

LEMMA InitTypeInv == Init => TypeInv
BY ConstantsAssumption DEF Init, TypeInv, TypeOK, RequestInv, ClockInv, EntryInv, Time

\* A decision to count k keeps the types, if the entry's time-out is right.
LEMMA DecideType ==
    ASSUME TypeInv, NEW p \in Process, pc[p] # "idle", NEW k \in Nat, Decide(p, k),
           expiry' \in [Process -> [Client -> [Time -> 0..(MaxTime + Window + 1)]]],
           \A q \in Process, c \in Client, n \in Time : count'[q][c][n] > 0 =>
               n + Window + 1 <= expiry'[q][c][n]
    PROVE  TypeInv'
<1> DEFINE c == client[p]
           n == key[p]
<1>1. c \in Client /\ n \in Time /\ now \in Time
  BY DEF TypeInv, TypeOK, RequestInv
<1>2. count' \in Table
  <2>1. count \in Table /\ count' = [count EXCEPT ![p][c][n] = k]
    BY DEF Decide, TypeInv, TypeOK, Table
  <2>2. QED BY <1>1, <2>1 DEF Table
<1>3. passed' \in [Process -> [Client -> Seq(Passage)]]
  <2> DEFINE r == Through(p, k)
  <2>1. r \in Passage
    BY <1>1 DEF Through, Passage, TypeInv, TypeOK
  <2>2. passed \in [Process -> [Client -> Seq(Passage)]]
    BY DEF TypeInv, TypeOK
  <2>3. passed' = passed \/ passed' = [passed EXCEPT ![p][c] = Append(passed[p][c], r)]
    BY DEF Decide
  <2> HIDE DEF r
  <2> DEFINE w == Append(passed[p][c], r)
  <2>4. w \in Seq(Passage)
    BY <1>1, <2>1, <2>2
  <2>5. passed' = passed \/ passed' = [passed EXCEPT ![p][c] = w]
    BY <2>3
  <2> HIDE DEF w
  <2>6. CASE passed' = [passed EXCEPT ![p][c] = w]
    BY <1>1, <2>2, <2>4, <2>6
  <2>7. QED BY <2>2, <2>5, <2>6
<1>4. TypeOK'
  BY <1>2, <1>3 DEF Decide, TypeInv, TypeOK, Table, clock
<1>5. RequestInv' /\ ClockInv' /\ EntryInv'
  BY DEF Decide, TypeInv, TypeOK, RequestInv, ClockInv, EntryInv, clock
<1>6. QED BY <1>4, <1>5 DEF TypeInv

\* A new counter runs out one second after its window at the earliest.
LEMMA StartType ==
    ASSUME TypeInv, NEW p \in Process, pc[p] # "idle", Start(p)
    PROVE  TypeInv'
<1> DEFINE c == client[p]
           n == key[p]
<1>1. c \in Client /\ n \in Time /\ now \in Time /\ n <= now
  BY DEF TypeInv, TypeOK, RequestInv, Time
<1>2. /\ expiry' = [expiry EXCEPT ![p][c][n] = now + Window + 1]
      /\ count' = [count EXCEPT ![p][c][n] = 1]
      /\ Decide(p, 1)
  <2>1. now + (Window + 1) = now + Window + 1
    BY ConstantsAssumption, <1>1 DEF Time
  <2>2. QED BY <2>1 DEF Start, Decide, Timeout
<1>3. now + Window + 1 \in 0..(MaxTime + Window + 1)
  BY ConstantsAssumption, <1>1 DEF Time
<1>4. expiry' \in [Process -> [Client -> [Time -> 0..(MaxTime + Window + 1)]]]
  BY <1>1, <1>2, <1>3 DEF TypeInv, TypeOK
<1>5. ASSUME NEW q \in Process, NEW d \in Client, NEW m \in Time, count'[q][d][m] > 0
      PROVE  m + Window + 1 <= expiry'[q][d][m]
  <2>1. CASE q = p /\ d = c /\ m = n
    <3>1. expiry \in [Process -> [Client -> [Time -> 0..(MaxTime + Window + 1)]]]
      BY DEF TypeInv, TypeOK
    <3>2. expiry'[p][c][n] = now + Window + 1
      BY <1>1, <1>2, <3>1
    <3>3. QED BY <1>1, <2>1, <3>2, ConstantsAssumption DEF Time
  <2>2. CASE ~(q = p /\ d = c /\ m = n)
    <3>1. count'[q][d][m] = count[q][d][m] /\ expiry'[q][d][m] = expiry[q][d][m]
      <4>1. /\ count \in Table
            /\ expiry \in [Process -> [Client -> [Time -> 0..(MaxTime + Window + 1)]]]
        BY DEF TypeInv, TypeOK, Table
      <4>2. QED BY <1>1, <1>2, <2>2, <4>1 DEF Table
    <3>2. QED BY <1>5, <3>1 DEF TypeInv, EntryInv
  <2>3. QED BY <2>1, <2>2
<1>6. QED BY <1>2, <1>4, <1>5, DecideType

LEMMA TypeStep ==
    ASSUME MaxDelay <= 1, TypeInv, [Next]_vars
    PROVE  TypeInv'
<1> USE ConstantsAssumption
<1>1. ASSUME NEW p \in Process, NEW c \in Client, Arrive(p, c)
      PROVE  TypeInv'
  <2>1. TypeOK'
    BY <1>1 DEF Arrive, KeyWindow, TypeInv, TypeOK, clock, entries, history
  <2>2. RequestInv'
    BY <1>1 DEF Arrive, KeyWindow, TypeInv, TypeOK, RequestInv, ClockInv, Time, clock
  <2>3. ClockInv' /\ EntryInv'
    BY <1>1 DEF Arrive, TypeInv, ClockInv, EntryInv, clock, entries
  <2>4. QED BY <2>1, <2>2, <2>3 DEF TypeInv
<1>2. ASSUME NEW p \in Process, Add(p)
      PROVE  TypeInv'
  BY <1>2, StartType DEF Add
<1>3. ASSUME NEW p \in Process, AddFails(p)
      PROVE  TypeInv'
  BY <1>3 DEF AddFails, TypeInv, TypeOK, RequestInv, ClockInv, EntryInv, clock, entries, history
<1>4. ASSUME NEW p \in Process, Incr(p)
      PROVE  TypeInv'
  <2> DEFINE c == client[p]
             n == key[p]
             k == count[p][c][n] + 1
  <2>1. c \in Client /\ n \in Time /\ pc[p] # "idle" /\ k \in Nat
    BY SMTT(30), <1>4 DEF Incr, TypeInv, TypeOK, RequestInv
  <2>2. CASE Live(p, c, n)
    <3>1. Decide(p, k) /\ expiry' = expiry
      BY <1>4, <2>2 DEF Incr
    <3>2. count' = [count EXCEPT ![p][c][n] = k]
      BY <3>1 DEF Decide
    <3>3. ASSUME NEW q \in Process, NEW d \in Client, NEW m \in Time, count'[q][d][m] > 0
          PROVE  m + Window + 1 <= expiry'[q][d][m]
      <4>1. count[q][d][m] > 0
        <5>1. count \in Table
          BY DEF TypeInv, TypeOK, Table
        <5> HIDE DEF k
        <5>2. CASE q = p /\ d = c /\ m = n
          BY <2>2, <5>2 DEF Live
        <5>3. CASE ~(q = p /\ d = c /\ m = n)
          BY <2>1, <3>2, <3>3, <5>1, <5>3 DEF Table
        <5>4. QED BY <5>2, <5>3
      <4>2. QED BY <3>1, <4>1 DEF TypeInv, EntryInv
    <3>4. expiry' \in [Process -> [Client -> [Time -> 0..(MaxTime + Window + 1)]]]
      BY <3>1 DEF TypeInv, TypeOK
    <3> HIDE DEF k
    <3>5. QED BY <2>1, <3>1, <3>3, <3>4, DecideType
  <2>3. CASE ~Live(p, c, n)
    BY <1>4, <2>1, <2>3, StartType DEF Incr
  <2>4. QED BY <2>2, <2>3
<1>5. ASSUME NEW p \in Process, Restart(p)
      PROVE  TypeInv'
  BY <1>5 DEF Restart, TypeInv, TypeOK, RequestInv, ClockInv, EntryInv, clock
<1>6. ASSUME NEW p \in Process, NEW c \in Client, NEW n \in Time, Cull(p, c, n)
      PROVE  TypeInv'
  <2>1. count \in Table /\ since \in [Process -> [Client -> [Time -> 0..MaxLosses]]]
    BY DEF TypeInv, TypeOK, Table
  <2>2. losses + 1 \in 0..MaxLosses /\ losses' = losses + 1
    BY <1>6 DEF Cull, TypeInv, TypeOK
  <2>3. count' \in Table /\ \A q \in Process, d \in Client, m \in Time :
           count'[q][d][m] = count[q][d][m] \/ count'[q][d][m] = 0
    BY <1>6, <2>1 DEF Cull, Table
  <2>4. since' \in [Process -> [Client -> [Time -> 0..MaxLosses]]]
    BY <1>6, <2>1, <2>2 DEF Cull
  <2>5. TypeOK'
    BY <1>6, <2>2, <2>3, <2>4 DEF Cull, TypeInv, TypeOK, Table, clock, request
  <2>6. RequestInv' /\ ClockInv'
    BY <1>6 DEF Cull, TypeInv, RequestInv, ClockInv, clock, request
  <2>7. EntryInv'
    BY <1>6, <2>1, <2>3 DEF Cull, TypeInv, EntryInv
  <2>8. QED BY <2>5, <2>6, <2>7 DEF TypeInv
<1>7. CASE Tick
  <2>1. now' = now + 1 /\ now \in Nat /\ window \in Nat /\ now < MaxTime
    BY <1>7 DEF Tick, TypeInv, TypeOK, Time
  <2>2. now' \in Time /\ window' \in Time /\ ClockInv'
    BY <1>7, <2>1 DEF Tick, TypeInv, ClockInv, TypeOK, Time
  <2>3. TypeOK'
    BY <1>7, <2>2 DEF Tick, TypeInv, TypeOK, entries, request, history
  <2>4. RequestInv'
    <3> SUFFICES ASSUME NEW p \in Process, pc[p] # "idle"
                 PROVE  /\ client[p] \in Client
                        /\ key[p] <= asked[p] /\ asked[p] < key[p] + Window
                        /\ asked[p] <= now + 1 /\ now + 1 <= asked[p] + MaxDelay
      BY <1>7, <2>1 DEF Tick, RequestInv, request
    <3>1. asked[p] \in Nat /\ MaxDelay \in Nat
      BY DEF TypeInv, TypeOK, Time
    <3>2. now < asked[p] + MaxDelay
      BY <1>7 DEF Tick
    <3>3. /\ client[p] \in Client
          /\ key[p] <= asked[p] /\ asked[p] < key[p] + Window /\ asked[p] <= now
      BY DEF TypeInv, RequestInv
    <3>4. QED BY <2>1, <3>1, <3>2, <3>3
  <2>5. EntryInv'
    BY <1>7 DEF Tick, TypeInv, EntryInv, entries
  <2>6. QED BY <2>2, <2>3, <2>4, <2>5 DEF TypeInv
<1>8. CASE UNCHANGED vars
  BY <1>8 DEF vars, TypeInv, TypeOK, RequestInv, ClockInv, EntryInv, clock, entries, request, history
<1>9. QED
  BY <1>1, <1>2, <1>3, <1>4, <1>5, <1>6, <1>7, <1>8 DEF Next

-----------------------------------------------------------------------------
(* The bound                                                                *)

\* While a request is in hand, an entry of its key has not expired.
LEMMA EntriesOutlive ==
    ASSUME MaxDelay <= 1, TypeInv, NEW p \in Process, pc[p] # "idle",
           count[p][client[p]][key[p]] > 0
    PROVE  Live(p, client[p], key[p])
<1>1. /\ client[p] \in Client /\ key[p] \in Time /\ now \in Int
      /\ expiry[p][client[p]][key[p]] \in Int
  <2>1. client[p] \in Client /\ key[p] \in Time /\ now \in Int
    BY DEF TypeInv, TypeOK, RequestInv, Time
  <2>2. expiry[p][client[p]][key[p]] \in 0..(MaxTime + Window + 1)
    <3>1. expiry \in [Process -> [Client -> [Time -> 0..(MaxTime + Window + 1)]]]
      BY DEF TypeInv, TypeOK
    <3>2. QED BY <2>1, <3>1
  <2>3. QED BY <2>1, <2>2
<1>2. key[p] + Window + 1 <= expiry[p][client[p]][key[p]]
  BY <1>1 DEF TypeInv, EntryInv
<1>3. now <= key[p] + Window
  BY ConstantsAssumption DEF TypeInv, TypeOK, RequestInv, Time
<1>4. QED BY <1>1, <1>2, <1>3, ConstantsAssumption DEF Live, Time

\* Two windows that begin at different seconds do not overlap.
LEMMA Spacing ==
    ASSUME NEW m, NEW n, Multiple(m), Multiple(n), m < n
    PROVE  m + Window <= n
<1>1. PICK j \in Nat : m = j * Window
  BY DEF Multiple
<1>2. PICK k \in Nat : n = k * Window
  BY DEF Multiple
<1>3. Window \in Nat /\ Window > 0
  BY ConstantsAssumption
<1>4. j < k
  <2>1. SUFFICES ASSUME k <= j PROVE k * Window <= j * Window
    BY <1>1, <1>2, <1>3
  <2>2. PICK d \in Nat : j = k + d
    BY <2>1
  <2>3. j * Window = k * Window + d * Window /\ d * Window \in Nat /\ k * Window \in Nat
    BY <1>3, <2>2
  <2>4. QED BY <2>3
<1>5. PICK d \in Nat : k = j + 1 + d
  <2>1. k - j - 1 \in Nat /\ k = j + 1 + (k - j - 1)
    BY <1>4
  <2>2. QED BY <2>1
<1>6. k * Window = j * Window + Window + d * Window /\ d * Window \in Nat /\ j * Window \in Nat
  BY <1>3, <1>5
<1>7. QED BY <1>1, <1>2, <1>3, <1>6

\* A window begins where the one before ends.
LEMMA NextMultiple ==
    ASSUME NEW m, Multiple(m)
    PROVE  Multiple(m + Window)
<1>1. PICK j \in Nat : m = j * Window
  BY DEF Multiple
<1>2. (j + 1) * Window = m + Window /\ j + 1 \in Nat
  BY <1>1, ConstantsAssumption
<1>3. QED BY <1>2 DEF Multiple

LEMMA PassageType ==
    ASSUME TypeInv, NEW p \in Process, NEW c \in Client, NEW i \in DOMAIN passed[p][c]
    PROVE  /\ passed[p][c][i].key \in Time /\ passed[p][c][i].since \in 0..MaxLosses
           /\ passed[p][c][i].number \in Nat /\ passed[p][c][i].at \in Time
<1>1. passed[p][c] \in Seq(Passage)
  BY DEF TypeInv, TypeOK
<1>2. passed[p][c][i] \in Passage
  BY <1>1
<1>3. QED BY <1>2 DEF Passage

\* A step that counts nothing and loses nothing: a request may come in, and a window
\* may pass.
LEMMA QuietStep ==
    ASSUME TypeInv, KeyInv, PassageInv, LossInv, TypeInv',
           UNCHANGED <<count, since, passed, losses>>,
           window <= window', Multiple(window'),
           \A p \in Process : pc'[p] # "idle" =>
               \/ pc[p] # "idle" /\ client'[p] = client[p] /\ key'[p] = key[p]
               \/ key'[p] = window
    PROVE  KeyInv' /\ PassageInv' /\ LossInv'
<1>1. window \in Nat /\ window' \in Nat
  BY DEF TypeInv, TypeOK, Time
<1>2. KeyInv'
  <2>1. ASSUME NEW p \in Process, pc'[p] # "idle"
        PROVE  Multiple(key'[p]) /\ key'[p] <= window'
    <3>1. Multiple(key'[p]) /\ key'[p] <= window
      BY <1>1, <2>1 DEF KeyInv
    <3>2. key'[p] \in Nat
      BY DEF TypeInv, TypeOK, Time
    <3>3. QED BY <1>1, <3>1, <3>2
  <2>2. \A n \in Time : n > window' => n > window
    BY SMTT(30), <1>1 DEF Time
  <2>3. QED BY <2>1, <2>2 DEF KeyInv, Multiple
<1>3. PassageInv'
  <2> SUFFICES ASSUME NEW p \in Process, NEW c \in Client, NEW i \in DOMAIN passed[p][c]
               PROVE  CountedOnce(p, c, i)'
    BY DEF PassageInv
  <2>1. CountedOnce(p, c, i)
    BY DEF PassageInv
  <2>2. Multiple(passed[p][c][i].key)'
    BY <2>1 DEF CountedOnce, Multiple
  <2>3. passed[p][c][i].key <= window'
    <3>1. passed[p][c][i].key \in Nat
      BY PassageType DEF Time
    <3>2. passed[p][c][i].key <= window
      BY <2>1 DEF CountedOnce
    <3>3. QED BY <1>1, <3>1, <3>2
  <2>4. QED BY <2>1, <2>2, <2>3 DEF CountedOnce
<1>4. ASSUME NEW p \in Process, NEW c \in Client, NEW n \in Time, NEW l,
             Dates(p, c, n, l)'
      PROVE  Dates(p, c, n, l)
  BY <1>1, <1>4 DEF Dates, Usable, Time
<1>5. QED BY <1>2, <1>3, <1>4 DEF LossInv

\* A request is counted: its number is new, and its counter was not lost since.
LEMMA CountStep ==
    ASSUME MaxDelay <= 1, TypeInv, KeyInv, PassageInv, LossInv, TypeInv',
           NEW p \in Process, pc[p] # "idle",
           Decide(p, count[p][client[p]][key[p]] + 1)
    PROVE  KeyInv' /\ PassageInv' /\ LossInv'
<1> DEFINE k == count[p][client[p]][key[p]] + 1
           r == Through(p, k)
<1>1. PICK c \in Client, n \in Time : c = client[p] /\ n = key[p]
  BY DEF TypeInv, TypeOK, RequestInv
<1>2. Multiple(n) /\ n <= window /\ n <= now /\ now <= n + Window
  <2>1. now \in Nat /\ asked[p] \in Nat /\ n \in Nat /\ Window \in Nat /\ MaxDelay \in Nat
    BY ConstantsAssumption DEF TypeInv, TypeOK, Time
  <2>2. n <= asked[p] /\ asked[p] < n + Window /\ asked[p] <= now /\ now <= asked[p] + MaxDelay
    BY <1>1 DEF TypeInv, RequestInv
  <2>3. QED BY <1>1, <2>1, <2>2 DEF KeyInv
<1>3. /\ count \in Table /\ since \in [Process -> [Client -> [Time -> 0..MaxLosses]]]
      /\ passed \in [Process -> [Client -> Seq(Passage)]]
      /\ window \in Nat
  <2>1. window \in Nat
    BY DEF TypeInv, TypeOK, Time
  <2>2. QED BY <2>1 DEF TypeInv, TypeOK, Table
<1>4. /\ k = count[p][c][n] + 1 /\ k \in Nat
      /\ count' = [count EXCEPT ![p][c][n] = k]
      /\ r = [key |-> n, since |-> since[p][c][n], number |-> k, at |-> now]
      /\ \/ passed' = passed
         \/ k <= MaxRequests /\ passed' = [passed EXCEPT ![p][c] = Append(passed[p][c], r)]
      /\ UNCHANGED <<now, window, key, since, losses>>
      /\ \A q \in Process : pc'[q] # "idle" => pc[q] # "idle" /\ client'[q] = client[q]
  <2>1. k = count[p][c][n] + 1 /\ k \in Nat
    <3>1. count[p][c][n] \in Nat
      BY <1>3 DEF Table
    <3>2. QED BY <1>1, <3>1
  <2>2. r = [key |-> n, since |-> since[p][c][n], number |-> k, at |-> now]
    BY <1>1 DEF Through
  <2>3. /\ count' = [count EXCEPT ![p][c][n] = k]
        /\ \/ passed' = passed
           \/ k <= MaxRequests /\ passed' = [passed EXCEPT ![p][c] = Append(passed[p][c], r)]
    BY <1>1 DEF Decide, Admits
  <2>4. UNCHANGED <<now, window, key, since, losses>>
    BY DEF Decide, clock
  <2>5. \A q \in Process : pc'[q] # "idle" => pc[q] # "idle" /\ client'[q] = client[q]
    BY DEF Decide, TypeInv, TypeOK
  <2>6. QED BY <2>1, <2>2, <2>3, <2>4, <2>5
<1> HIDE DEF k, r
<1>5. \A q \in Process, d \in Client, m \in Time :
         /\ count'[q][d][m] = IF q = p /\ d = c /\ m = n THEN k ELSE count[q][d][m]
         /\ count[q][d][m] \in Nat
  <2>1. count \in [Process -> [Client -> [Time -> Nat]]] /\ count' = [count EXCEPT ![p][c][n] = k]
    BY <1>3, <1>4 DEF Table
  <2>2. QED BY <2>1
<1>6. KeyInv'
  <2>1. \A m \in Time : m > window => m # n
    BY <1>2, <1>3 DEF Time
  <2>2. QED BY <1>4, <1>5, <2>1 DEF KeyInv, Multiple
<1>7. ASSUME NEW q \in Process, NEW d \in Client, NEW i \in DOMAIN passed'[q][d]
      PROVE  \/ i \in DOMAIN passed[q][d] /\ passed'[q][d][i] = passed[q][d][i]
             \/ /\ q = p /\ d = c /\ i = Len(passed[p][c]) + 1
                /\ k \in 1..MaxRequests /\ passed'[q][d][i] = r
  <2>1. CASE passed' = passed
    BY <1>7, <2>1
  <2>2. CASE /\ k <= MaxRequests
             /\ passed' = [passed EXCEPT ![p][c] = Append(passed[p][c], r)]
    <3>1. k \in 1..MaxRequests
      BY <1>4, <1>5, <2>2, ConstantsAssumption
    <3>2. CASE q = p /\ d = c
      <4>1. passed'[q][d] = Append(passed[p][c], r) /\ passed[p][c] \in Seq(Passage)
        BY <1>3, <2>2, <3>2
      <4>2. QED BY <1>7, <3>1, <3>2, <4>1
    <3>3. CASE ~(q = p /\ d = c)
      <4>1. passed'[q][d] = passed[q][d]
        BY <1>3, <2>2, <3>3
      <4>2. QED BY <1>7, <4>1
    <3>4. QED BY <3>2, <3>3
  <2>3. QED BY <1>4, <2>1, <2>2
<1>8. PassageInv'
  <2> SUFFICES ASSUME NEW q \in Process, NEW d \in Client, NEW i \in DOMAIN passed'[q][d]
               PROVE  CountedOnce(q, d, i)'
    BY DEF PassageInv
  <2>1. ASSUME NEW a \in DOMAIN passed[p][c],
               passed[p][c][a].key = n, passed[p][c][a].since = since[p][c][n],
               passed[p][c][a].number = k
        PROVE  FALSE
    <3>1. passed[p][c][a].number <= count[p][c][n]
      BY SMTT(30), <2>1 DEF PassageInv, CountedOnce
    <3>2. QED BY <1>4, <1>5, <2>1, <3>1
  <2>2. CASE i \in DOMAIN passed[q][d] /\ passed'[q][d][i] = passed[q][d][i]
    <3> DEFINE x == passed[q][d][i]
    <3>1. /\ Multiple(x.key) /\ x.key <= window
          /\ x.key <= x.at /\ x.at <= x.key + Window
          /\ x.number \in 1..MaxRequests
          /\ x.since <= since[q][d][x.key]
          /\ x.since = since[q][d][x.key] => x.number <= count[q][d][x.key]
      BY <2>2 DEF PassageInv, CountedOnce
    <3>2. x.since = since[q][d][x.key] => x.number <= count'[q][d][x.key]
      <4>1. x.key \in Time /\ x.number \in Nat
        BY <2>2, PassageType
      <4>2. count[q][d][x.key] \in Nat
        BY <1>5, <4>1
      <4>3. CASE q = p /\ d = c /\ x.key = n
        <5>1. count'[q][d][x.key] = count[q][d][x.key] + 1
          BY <1>4, <1>5, <4>3
        <5>2. x.since = since[q][d][x.key] => x.number <= count[q][d][x.key]
          BY ZenonT(40), <3>1
        <5> HIDE DEF x
        <5>3. QED BY <4>1, <4>2, <5>1, <5>2
      <4>4. CASE ~(q = p /\ d = c /\ x.key = n)
        <5>1. count'[q][d][x.key] = count[q][d][x.key]
          BY SMTT(30), <1>5, <4>1, <4>4
        <5>2. QED BY <3>1, <5>1
      <4>5. QED BY <4>3, <4>4
    <3>3. ASSUME NEW j \in DOMAIN passed'[q][d],
                 x.key = passed'[q][d][j].key, x.since = passed'[q][d][j].since,
                 x.number = passed'[q][d][j].number
          PROVE  i = j
      <4>1. CASE j \in DOMAIN passed[q][d] /\ passed'[q][d][j] = passed[q][d][j]
        BY <2>2, <3>3, <4>1 DEF PassageInv, CountedOnce
      <4>2. CASE q = p /\ d = c /\ passed'[q][d][j] = r
        BY <1>4, <2>1, <2>2, <3>3, <4>2
      <4>3. QED BY <1>7, <4>1, <4>2
    <3>4. window' = window /\ since' = since
      BY <1>4
    <3>5. Multiple(x.key)'
      BY <2>2, <3>1, <3>4 DEF Multiple
    <3>6. QED BY <2>2, <3>1, <3>2, <3>3, <3>4, <3>5 DEF CountedOnce
  <2>3. CASE /\ q = p /\ d = c /\ i = Len(passed[p][c]) + 1
             /\ k \in 1..MaxRequests /\ passed'[q][d][i] = r
    <3>1. since[p][c][n] <= since[p][c][n] /\ k <= count'[p][c][n]
      BY <1>3, <1>4, <1>5
    <3>2. ASSUME NEW j \in DOMAIN passed'[q][d],
                 n = passed'[q][d][j].key, since[p][c][n] = passed'[q][d][j].since,
                 k = passed'[q][d][j].number
          PROVE  i = j
      BY <1>7, <2>1, <2>3, <3>2
    <3>3. window' = window /\ since' = since
      BY <1>4
    <3>4. /\ passed'[q][d][i].key = n /\ passed'[q][d][i].since = since[p][c][n]
          /\ passed'[q][d][i].number = k /\ passed'[q][d][i].at = now
      BY <1>4, <2>3
    <3>5. Multiple(passed[q][d][i].key)'
      BY <1>2, <3>4 DEF Multiple
    <3>6. /\ n <= window' /\ n <= now /\ now <= n + Window /\ k \in 1..MaxRequests
          /\ since[p][c][n] <= since'[p][c][n]
          /\ q = p /\ d = c
      BY <1>2, <2>3, <3>1, <3>3
    <3>7. QED BY <3>1, <3>2, <3>4, <3>5, <3>6 DEF CountedOnce
  <2>4. QED BY <1>7, <2>2, <2>3
<1>9. ASSUME NEW q \in Process, NEW d \in Client, NEW m \in Time, NEW l,
             Dates(q, d, m, l)'
      PROVE  Dates(q, d, m, l)
  <2>1. CASE Usable(q, d, m)' /\ since[q][d][m] = l
    BY <1>4, <2>1 DEF Dates, Usable
  <2>2. CASE \E i \in DOMAIN passed'[q][d] :
                passed'[q][d][i].key = m /\ passed'[q][d][i].since = l
    <3>1. PICK i \in DOMAIN passed'[q][d] :
             passed'[q][d][i].key = m /\ passed'[q][d][i].since = l
      BY <2>2
    <3>2. CASE i \in DOMAIN passed[q][d] /\ passed'[q][d][i] = passed[q][d][i]
      BY <3>1, <3>2 DEF Dates
    <3>3. CASE q = p /\ d = c /\ passed'[q][d][i] = r
      <4>1. m = n /\ l = since[p][c][n]
        BY <1>4, <3>1, <3>3
      <4>2. Usable(p, c, n)
        BY <1>1 DEF Usable
      <4>3. QED BY <3>3, <4>1, <4>2 DEF Dates
    <3>4. QED BY <1>7, <3>2, <3>3
  <2>3. QED BY <1>4, <1>9, <2>1, <2>2 DEF Dates
<1>10. LossInv'
  BY <1>9 DEF LossInv
<1>11. QED BY <1>6, <1>8, <1>10

\* Counters of a process are lost: of those it may still use, one of each client.
LEMMA LossStep ==
    ASSUME TypeInv, KeyInv, PassageInv, LossInv, TypeInv', NEW p \in Process,
           losses' = losses + 1, UNCHANGED <<now, window, key, passed>>,
           \A q \in Process : pc'[q] # "idle" => pc[q] # "idle" /\ client'[q] = client[q],
           \A q \in Process, c \in Client, n \in Time :
               \/ count'[q][c][n] = count[q][c][n] /\ since'[q][c][n] = since[q][c][n]
               \/ /\ q = p /\ n <= window
                  /\ count'[q][c][n] = 0 /\ since'[q][c][n] = losses + 1,
           \A c \in Client, m, n \in Time :
               /\ Usable(p, c, m)' /\ since'[p][c][m] = losses + 1
               /\ Usable(p, c, n)' /\ since'[p][c][n] = losses + 1
               => m = n
    PROVE  KeyInv' /\ PassageInv' /\ LossInv'
<1>1. losses \in Nat /\ losses' \in Nat
  BY DEF TypeInv, TypeOK
<1>2. \A q \in Process, c \in Client, n \in Time :
         since[q][c][n] \in Nat /\ since[q][c][n] <= losses
  BY DEF TypeInv, TypeOK, KeyInv
<1>3. KeyInv'
  <2>1. window \in Nat
    BY DEF TypeInv, TypeOK, Time
  <2>2. ASSUME NEW q \in Process, NEW c \in Client, NEW n \in Time
        PROVE  /\ since'[q][c][n] <= losses + 1
               /\ n > window => count'[q][c][n] = 0 /\ since'[q][c][n] = 0
    <3>1. n > window => ~(n <= window)
      BY <2>1 DEF Time
    <3>2. QED BY <1>1, <1>2, <3>1 DEF KeyInv
  <2>3. QED BY <2>2 DEF KeyInv, Multiple
<1>4. PassageInv'
  <2> SUFFICES ASSUME NEW q \in Process, NEW c \in Client, NEW i \in DOMAIN passed[q][c]
               PROVE  CountedOnce(q, c, i)'
    BY DEF PassageInv
  <2> DEFINE n == passed[q][c][i].key
             l == passed[q][c][i].since
  <2>1. CountedOnce(q, c, i)
    BY DEF PassageInv
  <2>2. n \in Time /\ l \in Nat
    BY SMTT(30), PassageType
  <2>3. l <= since[q][c][n]
    BY ZenonT(40), <2>1 DEF CountedOnce
  <2>4. /\ l <= since'[q][c][n]
        /\ l = since'[q][c][n] =>
              since'[q][c][n] = since[q][c][n] /\ count'[q][c][n] = count[q][c][n]
    <3>1. since[q][c][n] \in Nat /\ since[q][c][n] <= losses
      BY <1>2, <2>2
    <3>2. CASE count'[q][c][n] = count[q][c][n] /\ since'[q][c][n] = since[q][c][n]
      BY <2>3, <3>2
    <3>3. CASE since'[q][c][n] = losses + 1
      <4> HIDE DEF n, l
      <4>1. QED BY <1>1, <2>2, <2>3, <3>1, <3>3
    <3>4. QED BY <2>2, <3>2, <3>3
  <2>5. window' = window /\ passed' = passed
    OBVIOUS
  <2>6. QED BY <2>1, <2>4, <2>5 DEF CountedOnce, Multiple
<1>5. ASSUME NEW q \in Process, NEW c \in Client, NEW n \in Time, NEW l \in 1..MaxLosses,
             Dates(q, c, n, l)'
      PROVE  \/ Dates(q, c, n, l) /\ l <= losses
             \/ q = p /\ l = losses + 1 /\ Usable(p, c, n)' /\ since'[p][c][n] = losses + 1
  <2>1. CASE Usable(q, c, n)' /\ since'[q][c][n] = l
    <3>1. Usable(q, c, n)
      BY <2>1 DEF Usable
    <3>2. CASE since'[q][c][n] = since[q][c][n]
      BY <1>2, <2>1, <3>1, <3>2 DEF Dates
    <3>3. CASE q = p /\ since'[q][c][n] = losses + 1
      BY <2>1, <3>3
    <3>4. QED BY <3>2, <3>3
  <2>2. CASE \E i \in DOMAIN passed[q][c] :
                passed[q][c][i].key = n /\ passed[q][c][i].since = l
    <3>1. PICK i \in DOMAIN passed[q][c] :
             passed[q][c][i].key = n /\ passed[q][c][i].since = l
      BY <2>2
    <3>2. l <= since[q][c][n]
      BY <3>1 DEF PassageInv, CountedOnce
    <3>3. QED BY <1>1, <1>2, <2>2, <3>2 DEF Dates
  <2>3. QED BY <1>5, <2>1, <2>2 DEF Dates
<1>6. LossInv'
  <2> SUFFICES ASSUME NEW c \in Client, NEW q \in Process, NEW r \in Process,
                      NEW m \in Time, NEW n \in Time, NEW l \in 1..MaxLosses,
                      Dates(q, c, m, l)', Dates(r, c, n, l)'
               PROVE  q = r /\ m = n
    BY DEF LossInv
  <2>1. CASE l <= losses
    BY <1>1, <1>5, <2>1 DEF LossInv
  <2>2. CASE l = losses + 1
    <3>1. ~(l <= losses)
      BY <1>1, <2>2
    <3>2. QED BY <1>5, <3>1
  <2>3. QED BY <1>5, <2>1, <2>2
<1>7. QED BY <1>3, <1>4, <1>6

-----------------------------------------------------------------------------
(* Theorems                                                                 *)

LEMMA InitIInv == Init => IInv
<1> SUFFICES ASSUME Init PROVE IInv
  OBVIOUS
<1>1. 0 = 0 * Window /\ 0 \in Nat
  BY ConstantsAssumption
<1>2. KeyInv
  BY <1>1 DEF Init, KeyInv, Multiple
<1>3. PassageInv
  BY DEF Init, PassageInv
<1>4. LossInv
  BY DEF Init, LossInv, Dates
<1>5. QED BY <1>2, <1>3, <1>4, InitTypeInv DEF IInv

LEMMA IInvStep ==
    ASSUME MaxDelay <= 1, IInv, [Next]_vars
    PROVE  IInv'
<1> USE DEF IInv
<1> SUFFICES KeyInv' /\ PassageInv' /\ LossInv'
  BY TypeStep
<1>0. TypeInv'
  BY TypeStep
<1>1. window \in Nat /\ Multiple(window)
  BY DEF TypeInv, TypeOK, Time, KeyInv
<1>2. ASSUME NEW p \in Process, pc[p] # "idle", Start(p), ~Live(p, client[p], key[p])
      PROVE  KeyInv' /\ PassageInv' /\ LossInv'
  <2>1. client[p] \in Client /\ key[p] \in Time
    BY <1>2 DEF TypeInv, TypeOK, RequestInv
  <2>2. count[p][client[p]][key[p]] \in Nat
    BY <2>1 DEF TypeInv, TypeOK
  <2>3. count[p][client[p]][key[p]] + 1 = 1
    BY <1>2, <2>2, EntriesOutlive
  <2>4. QED BY <1>0, <1>2, <2>3, CountStep DEF Start
<1>3. ASSUME NEW p \in Process, NEW c \in Client, Arrive(p, c)
      PROVE  KeyInv' /\ PassageInv' /\ LossInv'
  <2>1. \A q \in Process : pc'[q] # "idle" =>
           \/ pc[q] # "idle" /\ client'[q] = client[q] /\ key'[q] = key[q]
           \/ key'[q] = window
    BY <1>3 DEF Arrive, KeyWindow, TypeInv, TypeOK
  <2>2. UNCHANGED <<count, since, passed, losses>> /\ window' = window
    BY <1>3 DEF Arrive, clock, entries, history
  <2>3. QED BY <1>0, <1>1, <2>1, <2>2, QuietStep
<1>4. ASSUME NEW p \in Process, Add(p)
      PROVE  KeyInv' /\ PassageInv' /\ LossInv'
  BY <1>2, <1>4 DEF Add
<1>5. ASSUME NEW p \in Process, AddFails(p)
      PROVE  KeyInv' /\ PassageInv' /\ LossInv'
  <2>1. \A q \in Process : pc'[q] # "idle" =>
           pc[q] # "idle" /\ client'[q] = client[q] /\ key'[q] = key[q]
    BY <1>5 DEF AddFails, TypeInv, TypeOK
  <2>2. UNCHANGED <<count, since, passed, losses>> /\ window' = window
    BY <1>5 DEF AddFails, clock, entries, history
  <2>3. QED BY <1>0, <1>1, <2>1, <2>2, QuietStep
<1>6. ASSUME NEW p \in Process, Incr(p)
      PROVE  KeyInv' /\ PassageInv' /\ LossInv'
  <2>1. pc[p] # "idle"
    BY <1>6 DEF Incr
  <2>2. CASE Live(p, client[p], key[p])
    BY <1>0, <1>6, <2>1, <2>2, CountStep DEF Incr
  <2>3. CASE ~Live(p, client[p], key[p])
    BY <1>2, <1>6, <2>1, <2>3 DEF Incr
  <2>4. QED BY <2>2, <2>3
<1>7. ASSUME NEW p \in Process, Restart(p)
      PROVE  KeyInv' /\ PassageInv' /\ LossInv'
  <2>1. \A q \in Process, c \in Client, n \in Time :
           \/ count'[q][c][n] = count[q][c][n] /\ since'[q][c][n] = since[q][c][n]
           \/ /\ q = p /\ n <= window
              /\ count'[q][c][n] = 0 /\ since'[q][c][n] = losses + 1
    <3> SUFFICES ASSUME NEW q \in Process, NEW c \in Client, NEW n \in Time
                 PROVE  \/ /\ count'[q][c][n] = count[q][c][n]
                           /\ since'[q][c][n] = since[q][c][n]
                        \/ /\ q = p /\ n <= window
                           /\ count'[q][c][n] = 0 /\ since'[q][c][n] = losses + 1
      OBVIOUS
    <3>1. CASE q # p
      BY <1>7, <3>1 DEF Restart, TypeInv, TypeOK
    <3>2. CASE q = p
      <4>1. /\ count'[q][c][n] = 0
            /\ since'[q][c][n] = IF n <= window THEN losses + 1 ELSE 0
        BY <1>7, <3>2 DEF Restart, TypeInv, TypeOK
      <4>2. n <= window \/ n > window
        BY <1>1 DEF Time
      <4>3. QED BY <3>2, <4>1, <4>2 DEF KeyInv
    <3>3. QED BY <3>1, <3>2
  <2>2. \A q \in Process : pc'[q] # "idle" => pc[q] # "idle" /\ client'[q] = client[q]
    BY <1>7 DEF Restart, TypeInv, TypeOK
  <2>3. losses' = losses + 1 /\ UNCHANGED <<now, window, key, passed>>
    BY <1>7 DEF Restart, clock
  <2>4. ASSUME NEW c \in Client, NEW n \in Time,
               Usable(p, c, n)', since'[p][c][n] = losses + 1
        PROVE  n = window
    <3>1. pc'[p] = "idle" /\ window' = window
      BY <1>7 DEF Restart, TypeInv, TypeOK, clock
    <3>2. n >= window
      BY <2>4, <3>1 DEF Usable
    <3>3. since'[p][c][n] = IF n <= window THEN losses + 1 ELSE 0
      BY <1>7 DEF Restart, TypeInv, TypeOK
    <3>4. losses + 1 # 0
      BY DEF TypeInv, TypeOK
    <3>5. QED BY <1>1, <2>4, <3>2, <3>3, <3>4 DEF Time
  <2>5. QED BY <1>0, <2>1, <2>2, <2>3, <2>4, LossStep
<1>8. ASSUME NEW p \in Process, NEW c \in Client, NEW n \in Time, Cull(p, c, n)
      PROVE  KeyInv' /\ PassageInv' /\ LossInv'
  <2>1. n <= window
    <3>1. count[p][c][n] > 0
      BY <1>8 DEF Cull
    <3>2. count[p][c][n] # 0
      BY <3>1 DEF TypeInv, TypeOK
    <3>3. ~(n > window)
      BY <3>2 DEF KeyInv
    <3>4. QED BY <1>1, <3>3 DEF Time
  <2>2. \A q \in Process, d \in Client, m \in Time :
           IF q = p /\ d = c /\ m = n
           THEN count'[q][d][m] = 0 /\ since'[q][d][m] = losses + 1
           ELSE count'[q][d][m] = count[q][d][m] /\ since'[q][d][m] = since[q][d][m]
    <3>1. /\ count \in [Process -> [Client -> [Time -> Nat]]]
          /\ since \in [Process -> [Client -> [Time -> 0..MaxLosses]]]
      BY DEF TypeInv, TypeOK
    <3>2. /\ count' = [count EXCEPT ![p][c][n] = 0]
          /\ since' = [since EXCEPT ![p][c][n] = losses + 1]
      BY <1>8 DEF Cull
    <3>3. QED BY <3>1, <3>2
  <2>3. losses' = losses + 1 /\ UNCHANGED <<now, window, pc, client, key, passed>>
    BY <1>8 DEF Cull, clock, request
  <2>4. ASSUME NEW d \in Client, NEW m \in Time, since'[p][d][m] = losses + 1
        PROVE  d = c /\ m = n
    <3>1. since[p][d][m] <= losses /\ since[p][d][m] \in Nat /\ losses \in Nat
      BY DEF TypeInv, TypeOK, KeyInv
    <3>2. QED BY <2>2, <2>4, <3>1
  <2>5. QED BY <1>0, <2>1, <2>2, <2>3, <2>4, LossStep
<1>9. CASE Tick
  <2>1. window <= window' /\ Multiple(window')
    <3>1. CASE now + 1 = window + Window
      <4>1. window' = window + Window
        BY <1>9, <3>1 DEF Tick
      <4>2. QED BY <1>1, <4>1, NextMultiple, ConstantsAssumption
    <3>2. CASE now + 1 # window + Window
      <4>1. window' = window
        BY <1>9, <3>2 DEF Tick
      <4>2. QED BY <1>1, <4>1
    <3>3. QED BY <3>1, <3>2
  <2>2. UNCHANGED <<count, since, passed, losses, pc, client, key>>
    BY <1>9 DEF Tick, entries, request, history
  <2>3. QED BY <1>0, <2>1, <2>2, QuietStep
<1>10. CASE UNCHANGED vars
  <2>1. UNCHANGED <<count, since, passed, losses, pc, client, key, window>>
    BY <1>10 DEF vars, clock, entries, request, history
  <2>2. QED BY <1>0, <1>1, <2>1, QuietStep
<1>11. QED
  BY <1>3, <1>4, <1>5, <1>6, <1>7, <1>8, <1>9, <1>10 DEF Next

THEOREM IInvHolds ==
    ASSUME MaxDelay <= 1
    PROVE  Spec => []IInv
<1>1. Init => IInv
  BY InitIInv
<1>2. IInv /\ [Next]_vars => IInv'
  BY IInvStep
<1>3. QED BY <1>1, <1>2, PTL DEF Spec

\* The variables have their types, the times at which entries expire included.
THEOREM TypeCorrect ==
    ASSUME MaxDelay <= 1
    PROVE  Spec => []TypeOK
<1>1. IInv => TypeOK
  BY DEF IInv, TypeInv
<1>2. QED BY <1>1, IInvHolds, PTL

\* From one loss of a counter to the next, no process lets more than max_requests through
\* under one key of _counter_key, whatever the limit, the window and the interleaving with
\* the clock: the second that rate_limit adds to the time-out covers a request that is
\* late by one.
THEOREM WindowIsBounded ==
    ASSUME MaxDelay <= 1
    PROVE  Spec => []WindowBound
<1>1. IInv => WindowBound
  <2> SUFFICES ASSUME IInv, NEW p \in Process, NEW c \in Client, NEW n \in Time,
                      NEW l \in 0..losses
               PROVE  Cardinality({i \in DOMAIN passed[p][c] :
                          passed[p][c][i].key = n /\ passed[p][c][i].since = l})
                        <= MaxRequests
    BY DEF WindowBound
  <2> DEFINE S == {i \in DOMAIN passed[p][c] :
                       passed[p][c][i].key = n /\ passed[p][c][i].since = l}
             f == [i \in S |-> passed[p][c][i].number]
  <2>1. \A i \in S : CountedOnce(p, c, i)
    BY DEF IInv, PassageInv
  <2>2. f \in Injection(S, 1..MaxRequests)
    <3>1. f \in [S -> 1..MaxRequests]
      BY <2>1 DEF CountedOnce
    <3>2. ASSUME NEW i \in S, NEW j \in S, f[i] = f[j]
          PROVE  i = j
      BY <2>1, <3>2 DEF CountedOnce
    <3>3. QED BY <3>1, <3>2 DEF Injection, IsInjective
  <2>3. IsFiniteSet(1..MaxRequests) /\ Cardinality(1..MaxRequests) = MaxRequests
    BY ConstantsAssumption, FS_Interval
  <2> HIDE DEF S, f
  <2>4. Cardinality(S) <= Cardinality(1..MaxRequests)
    BY <2>2, <2>3, FS_Injection
  <2>5. QED BY <2>3, <2>4 DEF S
<1>2. QED BY <1>1, IInvHolds, PTL

\* What stands for the counters that may let requests through in window_seconds on end:
\* one of each process for each of the two windows that meet there, and one for each loss.
Counter == (Process \X (0..1)) \union ((1..losses) \X {2})

LEMMA CounterCardinality ==
    ASSUME TypeInv
    PROVE  /\ IsFiniteSet(Counter \X (1..MaxRequests))
           /\ Cardinality(Counter \X (1..MaxRequests))
                <= (2 * Cardinality(Process) + losses) * MaxRequests
<1> DEFINE A == Process \X (0..1)
           B == (1..losses) \X {2}
           N == Cardinality(Process)
<1>1. losses \in Nat /\ MaxRequests \in Nat /\ N \in Nat /\ IsFiniteSet(Process)
  BY ConstantsAssumption, FS_CardinalityType DEF TypeInv, TypeOK
<1>2. IsFiniteSet(A) /\ Cardinality(A) = N * 2
  <2>1. IsFiniteSet(0..1) /\ Cardinality(0..1) = 2
    <3>1. /\ IsFiniteSet(0..1)
          /\ Cardinality(0..1) = IF 0 > 1 THEN 0 ELSE 1 - 0 + 1
      BY FS_Interval, 0 \in Int, 1 \in Int
    <3>2. QED BY <3>1
  <2>2. QED BY <1>1, <2>1, FS_Product
<1>3. IsFiniteSet(B) /\ Cardinality(B) = losses
  <2>1. IsFiniteSet(1..losses) /\ Cardinality(1..losses) = losses
    BY SMTT(30), <1>1, FS_Interval
  <2>2. IsFiniteSet({2}) /\ Cardinality({2}) = 1
    BY FS_Singleton
  <2>3. IsFiniteSet(B) /\ Cardinality(B) = Cardinality(1..losses) * Cardinality({2})
    BY <2>1, <2>2, FS_Product
  <2>4. losses * 1 = losses
    BY <1>1
  <2> HIDE DEF B
  <2>5. QED BY <2>1, <2>2, <2>3, <2>4
<1>4. IsFiniteSet(A \union B) /\ Cardinality(A \union B) <= N * 2 + losses
  <2> HIDE DEF A, B
  <2>1. /\ IsFiniteSet(A \union B)
        /\ Cardinality(A \union B) = Cardinality(A) + Cardinality(B) - Cardinality(A \cap B)
    BY <1>2, <1>3, FS_Union
  <2>2. IsFiniteSet(A \cap B)
    BY <1>2, FS_Intersection
  <2>3. Cardinality(A \cap B) \in Nat
    BY <2>2, FS_CardinalityType
  <2>4. QED BY <1>1, <1>2, <1>3, <2>1, <2>3
<1>5. IsFiniteSet(Counter) /\ Cardinality(Counter) <= 2 * N + losses
  BY <1>1, <1>4 DEF Counter
<1>6. Cardinality(Counter) \in Nat
  BY <1>5, FS_CardinalityType
<1>7. IsFiniteSet(1..MaxRequests) /\ Cardinality(1..MaxRequests) = MaxRequests
  BY SMTT(30), <1>1, FS_Interval
<1>8. /\ IsFiniteSet(Counter \X (1..MaxRequests))
      /\ Cardinality(Counter \X (1..MaxRequests)) = Cardinality(Counter) * MaxRequests
  <2>1. Cardinality(Counter \X (1..MaxRequests))
          = Cardinality(Counter) * Cardinality(1..MaxRequests)
    BY <1>5, <1>7, FS_Product
  <2>2. QED BY <1>5, <1>7, <2>1, FS_Product
<1>9. ASSUME NEW a \in Nat, NEW b \in Nat, a <= b
      PROVE  a * MaxRequests <= b * MaxRequests
  <2>1. PICK d \in Nat : b = a + d
    <3>1. b - a \in Nat /\ b = a + (b - a)
      BY <1>9
    <3>2. QED BY <3>1
  <2>2. b * MaxRequests = a * MaxRequests + d * MaxRequests
    BY <1>1, <2>1
  <2>3. a * MaxRequests \in Nat /\ d * MaxRequests \in Nat
    BY <1>1
  <2>4. QED BY <2>2, <2>3
<1>10. 2 * N + losses \in Nat
  BY <1>1
<1>11. QED BY <1>5, <1>6, <1>8, <1>9, <1>10

\* Two requests of one process and client that were let through within window_seconds,
\* both of windows that began before t or both of windows that began later, were of one
\* window.
LEMMA OneWindow ==
    ASSUME TypeInv, PassageInv, NEW p \in Process, NEW c \in Client, NEW t \in Time,
           NEW i \in DOMAIN passed[p][c], NEW j \in DOMAIN passed[p][c],
           t <= passed[p][c][i].at, passed[p][c][i].at < t + Window,
           t <= passed[p][c][j].at, passed[p][c][j].at < t + Window,
           passed[p][c][i].key < t <=> passed[p][c][j].key < t
    PROVE  ~(passed[p][c][i].key < passed[p][c][j].key)
<1> DEFINE r == passed[p][c][i]
           s == passed[p][c][j]
<1>1. SUFFICES ASSUME r.key < s.key PROVE FALSE
  OBVIOUS
<1>2. /\ r.key \in Nat /\ r.at \in Nat /\ s.key \in Nat /\ s.at \in Nat
      /\ t \in Nat /\ Window \in Nat
  BY PassageType, ConstantsAssumption DEF Time
<1>3. /\ Multiple(r.key) /\ r.at <= r.key + Window
      /\ Multiple(s.key) /\ s.key <= s.at
  BY DEF PassageInv, CountedOnce
<1>4. r.key + Window <= s.key
  BY <1>1, <1>3, Spacing
<1> HIDE DEF r, s
<1>5. (r.key < t <=> s.key < t) /\ t <= r.at /\ s.at < t + Window
  BY DEF r, s
<1>6. QED BY <1>2, <1>3, <1>4, <1>5

\* In any window_seconds on end a client gets at most max_requests from each process for
\* each of the two windows that may meet there, and as many for each entry or process that
\* was lost.
THEOREM SlidingIsBounded ==
    ASSUME MaxDelay <= 1
    PROVE  Spec => []SlidingBound
<1>1. IInv => SlidingBound
  <2> SUFFICES ASSUME IInv, NEW c \in Client, NEW t \in Time
               PROVE  Cardinality(PassedFrom(c, t))
                        <= (2 * Cardinality(Process) + losses) * MaxRequests
    BY DEF SlidingBound
  <2> DEFINE S == PassedFrom(c, t)
             T == Counter \X (1..MaxRequests)
             r(x) == passed[x[1]][c][x[2]]
             counter(x) == IF r(x).since = 0
                           THEN <<x[1], IF r(x).key < t THEN 0 ELSE 1>>
                           ELSE <<r(x).since, 2>>
             f == [x \in S |-> <<counter(x), r(x).number>>]
  <2>1. ASSUME NEW x \in S
        PROVE  /\ x = <<x[1], x[2]>> /\ x[1] \in Process /\ x[2] \in DOMAIN passed[x[1]][c]
               /\ t <= r(x).at /\ r(x).at < t + Window
               /\ CountedOnce(x[1], c, x[2])
               /\ r(x).key \in Time /\ r(x).since \in Nat /\ r(x).since <= losses
    <3>1. PICK p \in Process : \E i \in DOMAIN passed[p][c] :
             x = <<p, i>> /\ t <= passed[p][c][i].at /\ passed[p][c][i].at < t + Window
      BY DEF PassedFrom
    <3> PICK i \in DOMAIN passed[p][c] :
             x = <<p, i>> /\ t <= passed[p][c][i].at /\ passed[p][c][i].at < t + Window
      BY <3>1
    <3>2. CountedOnce(p, c, i)
      BY DEF IInv, PassageInv
    <3>3. passed[p][c][i].key \in Time /\ passed[p][c][i].since \in Nat
      BY PassageType DEF IInv
    <3>4. passed[p][c][i].since <= losses
      <4>1. passed[p][c][i].since <= since[p][c][passed[p][c][i].key]
        BY <3>2 DEF CountedOnce
      <4>2. since[p][c][passed[p][c][i].key] <= losses
        BY <3>3 DEF IInv, KeyInv
      <4>3. since[p][c][passed[p][c][i].key] \in Nat /\ losses \in Nat
        <5>1. since \in [Process -> [Client -> [Time -> 0..MaxLosses]]] /\ losses \in Nat
          BY DEF IInv, TypeInv, TypeOK
        <5>2. since[p][c][passed[p][c][i].key] \in 0..MaxLosses
          BY <3>3, <5>1
        <5>3. QED BY <5>1, <5>2
      <4>4. QED BY <3>3, <4>1, <4>2, <4>3
    <3>5. QED BY <3>2, <3>3, <3>4
  <2>2. f \in [S -> T]
    <3> SUFFICES ASSUME NEW x \in S PROVE counter(x) \in Counter /\ r(x).number \in 1..MaxRequests
      OBVIOUS
    <3>1. r(x).number \in 1..MaxRequests
      BY <2>1 DEF CountedOnce
    <3>2. r(x).since # 0 => r(x).since \in 1..losses
      <4>1. r(x).since \in Nat /\ r(x).since <= losses
        BY <2>1
      <4>2. losses \in Nat
        BY DEF IInv, TypeInv, TypeOK
      <4> HIDE DEF r
      <4>3. QED BY <4>1, <4>2
    <3>3. CASE r(x).since = 0
      <4> DEFINE side == IF r(x).key < t THEN 0 ELSE 1
      <4>1. counter(x) = <<x[1], side>>
        BY <3>3
      <4>2. x[1] \in Process
        BY <2>1
      <4>3. side \in 0..1
        OBVIOUS
      <4> HIDE DEF counter, side
      <4>4. QED BY <3>1, <4>1, <4>2, <4>3 DEF Counter
    <3>4. CASE r(x).since # 0
      <4>1. counter(x) = <<r(x).since, 2>>
        BY <3>4
      <4> HIDE DEF counter, r
      <4>2. QED BY <3>1, <3>2, <3>4, <4>1 DEF Counter
    <3>5. QED BY <3>3, <3>4
  <2>3. ASSUME NEW x \in S, NEW y \in S, f[x] = f[y]
        PROVE  x = y
    <3>1. counter(x) = counter(y) /\ r(x).number = r(y).number
      BY <2>3
    <3>2. x[1] = y[1] /\ r(x).key = r(y).key /\ r(x).since = r(y).since
      <4>1. CASE r(x).since = 0
        <5>1. r(y).since = 0 /\ x[1] = y[1] /\ (r(x).key < t <=> r(y).key < t)
          BY <3>1, <4>1
        <5>2. ~(r(x).key < r(y).key) /\ ~(r(y).key < r(x).key)
          BY <2>1, <5>1, OneWindow DEF IInv
        <5>3. r(x).key = r(y).key
          <6>1. r(x).key \in Time /\ r(y).key \in Time
            BY <2>1
          <6> HIDE DEF r
          <6>2. QED BY <5>2, <6>1, ConstantsAssumption DEF Time
        <5>4. QED BY <4>1, <5>1, <5>3
      <4>2. CASE r(x).since # 0
        <5>1. r(y).since = r(x).since
          BY <3>1, <4>2
        <5>2. r(x).since \in 1..MaxLosses
          <6>1. r(x).since \in Nat /\ r(x).since <= losses /\ losses \in 0..MaxLosses
            BY <2>1 DEF IInv, TypeInv, TypeOK
          <6>2. MaxLosses \in Nat
            BY ConstantsAssumption
          <6> HIDE DEF r
          <6>3. QED BY <4>2, <6>1, <6>2
        <5>3. Dates(x[1], c, r(x).key, r(x).since) /\ Dates(y[1], c, r(y).key, r(x).since)
          BY <2>1, <5>1 DEF Dates
        <5>4. /\ x[1] \in Process /\ y[1] \in Process
              /\ r(x).key \in Time /\ r(y).key \in Time
          BY ZenonT(40), <2>1
        <5> HIDE DEF r
        <5>5. QED BY <5>1, <5>2, <5>3, <5>4 DEF IInv, LossInv
      <4>3. QED BY <4>1, <4>2
    <3>3. x[2] = y[2]
      BY <2>1, <3>1, <3>2 DEF CountedOnce
    <3>4. QED BY <2>1, <3>2, <3>3
  <2>4. f \in Injection(S, T)
    <3> HIDE DEF f, T
    <3>1. QED BY <2>2, <2>3 DEF Injection, IsInjective
  <2>5. Cardinality(S) <= Cardinality(T)
    <3>1. IsFiniteSet(T)
      BY CounterCardinality DEF IInv
    <3> HIDE DEF f, S, T
    <3>2. QED BY <2>4, <3>1, FS_Injection
  <2>6. Cardinality(S) \in Nat /\ Cardinality(T) \in Nat
    <3>1. IsFiniteSet(T)
      BY CounterCardinality DEF IInv
    <3> HIDE DEF f, S, T
    <3>2. IsFiniteSet(S)
      BY <2>4, <3>1, FS_Injection
    <3>3. QED BY <3>1, <3>2, FS_CardinalityType
  <2>7. Cardinality(T) <= (2 * Cardinality(Process) + losses) * MaxRequests
    BY CounterCardinality DEF IInv
  <2>8. (2 * Cardinality(Process) + losses) * MaxRequests \in Nat
    BY ConstantsAssumption, FS_CardinalityType DEF IInv, TypeInv, TypeOK
  <2> HIDE DEF S, T
  <2>9. QED BY <2>5, <2>6, <2>7, <2>8 DEF S
<1>2. QED BY <1>1, IInvHolds, PTL
=============================================================================
