------------------------------ MODULE RateLimit ------------------------------
(***************************************************************************)
(* The rate_limit decorator of apps/core: a fixed window whose counter is  *)
(* an entry of the cache.  The cache is Django's default, in the memory of *)
(* each gunicorn process, and a process handles one request at a time.     *)
(*                                                                         *)
(* Time is counted in seconds.  A window is named by the second it begins  *)
(* at, for the code's int(time()) // window_seconds.                       *)
(***************************************************************************)
EXTENDS Integers, Sequences, FiniteSets

CONSTANTS
    Process,      \* gunicorn workers
    Client,       \* identities: a seller, an API key or an address
    NoClient,     \* a process that handles no request
    MaxRequests,  \* max_requests of the decorator
    Window,       \* window_seconds of the decorator
    MaxDelay,     \* seconds between a request's look at the clock and its count
    MaxCount,     \* bound on the counters: the requests after it are refused too
    MaxTime,      \* bound on the clock
    MaxLosses     \* bound on the entries and processes lost

ASSUME ConstantsAssumption ==
    /\ IsFiniteSet(Process)
    /\ NoClient \notin Client
    /\ MaxRequests \in Nat \ {0}
    /\ Window \in Nat \ {0}
    /\ MaxDelay \in Nat
    /\ MaxCount \in Nat /\ MaxCount > MaxRequests
    /\ MaxTime \in Nat
    /\ MaxLosses \in Nat

VARIABLES
    now,      \* int(time.time())
    window,   \* the second the current window began at
    count,    \* the counter of each process, client and window; 0: no entry
    expiry,   \* when the entry expires
    pc,       \* where each process is
    client,   \* whose request it handles
    key,      \* the window in the request's counter key
    asked,    \* when it computed the key
    losses,   \* entries and processes lost so far
    since,    \* the last loss of each counter; 0: never lost (history)
    passed    \* the requests each process let each client through with (history)

entries == <<count, expiry>>
request == <<pc, client, key, asked>>
clock == <<now, window>>
history == <<since, passed>>
vars == <<clock, entries, request, losses, history>>

Time == 0..MaxTime

\* A request let through: under which key, as which number since which loss of its
\* counter, and in which second.
Passage == [key : Time, since : 0..MaxLosses, number : Nat, at : Time]

TypeOK ==
    /\ now \in Time /\ window \in Time
    /\ count \in [Process -> [Client -> [Time -> Nat]]]
    /\ expiry \in [Process -> [Client -> [Time -> 0..(MaxTime + Window + 1)]]]
    /\ pc \in [Process -> {"idle", "add", "incr"}]
    /\ client \in [Process -> Client \union {NoClient}]
    /\ key \in [Process -> Time]
    /\ asked \in [Process -> Time]
    /\ losses \in 0..MaxLosses
    /\ since \in [Process -> [Client -> [Time -> 0..MaxLosses]]]
    /\ passed \in [Process -> [Client -> Seq(Passage)]]

Init ==
    /\ now = 0 /\ window = 0
    /\ count = [p \in Process |-> [c \in Client |-> [n \in Time |-> 0]]]
    /\ expiry = [p \in Process |-> [c \in Client |-> [n \in Time |-> 0]]]
    /\ pc = [p \in Process |-> "idle"]
    /\ client = [p \in Process |-> NoClient]
    /\ key = [p \in Process |-> 0]
    /\ asked = [p \in Process |-> 0]
    /\ losses = 0
    /\ since = [p \in Process |-> [c \in Client |-> [n \in Time |-> 0]]]
    /\ passed = [p \in Process |-> [c \in Client |-> <<>>]]

-----------------------------------------------------------------------------
(* A request                                                                *)

KeyWindow == window

\* _counter_key: the window is that of the clock when the key is made.
Arrive(p, c) ==
    /\ pc[p] = "idle"
    /\ count[p][c][KeyWindow] < MaxCount
    /\ pc' = [pc EXCEPT ![p] = "add"]
    /\ client' = [client EXCEPT ![p] = c]
    /\ key' = [key EXCEPT ![p] = KeyWindow]
    /\ asked' = [asked EXCEPT ![p] = now]
    /\ UNCHANGED <<clock, entries, losses, history>>

\* The cache holds an entry of this key that has not expired.
Live(p, c, n) == count[p][c][n] > 0 /\ now < expiry[p][c][n]

\* Mutant: the counter expires with its window.
Timeout_NoMargin == Window

Timeout == Window + 1

\* Mutant: the limit is compared with the count before the request.
Admits_Late(k) == k <= MaxRequests + 1

\* current > max_requests is refused.
Admits(k) == k <= MaxRequests

Through(p, k) ==
    [key |-> key[p], since |-> since[p][client[p]][key[p]], number |-> k, at |-> now]

\* The counter is k after the request, which is let through or refused.
Decide(p, k) ==
    LET c == client[p]
        n == key[p]
    IN  /\ count' = [count EXCEPT ![p][c][n] = k]
        /\ IF Admits(k)
           THEN passed' = [passed EXCEPT ![p][c] = Append(@, Through(p, k))]
           ELSE UNCHANGED passed
        /\ pc' = [pc EXCEPT ![p] = "idle"]
        /\ client' = [client EXCEPT ![p] = NoClient]
        /\ UNCHANGED <<clock, key, asked, losses, since>>

\* A counter that starts again: cache.add, or cache.set after the ValueError.
Start(p) ==
    /\ expiry' = [expiry EXCEPT ![p][client[p]][key[p]] = now + Timeout]
    /\ Decide(p, 1)

\* cache.add puts an entry where there is none.
Add(p) ==
    /\ pc[p] = "add"
    /\ ~Live(p, client[p], key[p])
    /\ Start(p)

\* It returns False where there is one.
AddFails(p) ==
    /\ pc[p] = "add"
    /\ Live(p, client[p], key[p])
    /\ pc' = [pc EXCEPT ![p] = "incr"]
    /\ UNCHANGED <<clock, entries, client, key, asked, losses, history>>

\* cache.incr, or the start of a new counter if the entry expired meanwhile.
Incr(p) ==
    /\ pc[p] = "incr"
    /\ IF Live(p, client[p], key[p])
       THEN Decide(p, count[p][client[p]][key[p]] + 1) /\ UNCHANGED expiry
       ELSE Start(p)

-----------------------------------------------------------------------------
(* Time and losses                                                          *)

\* A second passes; no request takes longer than MaxDelay to be counted.
Tick ==
    /\ now < MaxTime
    /\ \A p \in Process : pc[p] # "idle" => now < asked[p] + MaxDelay
    /\ now' = now + 1
    /\ window' = IF now + 1 = window + Window THEN now + 1 ELSE window
    /\ UNCHANGED <<entries, request, losses, history>>

\* The cache of a process is full (MAX_ENTRIES, 300) and the entry is culled.
Cull(p, c, n) ==
    /\ count[p][c][n] > 0
    /\ losses < MaxLosses
    /\ losses' = losses + 1
    /\ count' = [count EXCEPT ![p][c][n] = 0]
    /\ since' = [since EXCEPT ![p][c][n] = losses + 1]
    /\ UNCHANGED <<clock, expiry, request, passed>>

\* gunicorn replaces a process: its counters are gone, and its request is lost.
Restart(p) ==
    /\ losses < MaxLosses
    /\ losses' = losses + 1
    /\ count' = [count EXCEPT ![p] = [c \in Client |-> [n \in Time |-> 0]]]
    /\ since' = [since EXCEPT ![p] =
          [c \in Client |-> [n \in Time |-> IF n <= window THEN losses + 1 ELSE 0]]]
    /\ pc' = [pc EXCEPT ![p] = "idle"]
    /\ client' = [client EXCEPT ![p] = NoClient]
    /\ UNCHANGED <<clock, expiry, key, asked, passed>>

Next ==
    \/ \E p \in Process :
          \/ \E c \in Client : Arrive(p, c)
          \/ Add(p) \/ AddFails(p) \/ Incr(p) \/ Restart(p)
          \/ \E c \in Client, n \in Time : Cull(p, c, n)
    \/ Tick

Spec == Init /\ [][Next]_vars

-----------------------------------------------------------------------------
(* Properties                                                               *)

\* From one loss of a counter to the next, a process lets no more than max_requests of
\* a client through under one key: an entry never expires while a request that was late
\* by a second may still count on it.
WindowBound ==
    \A p \in Process, c \in Client, n \in Time, l \in 0..losses :
        Cardinality({i \in DOMAIN passed[p][c] :
            passed[p][c][i].key = n /\ passed[p][c][i].since = l}) <= MaxRequests

\* What a client gets in any window_seconds on end.
PassedFrom(c, t) ==
    UNION {{p} \X {i \in DOMAIN passed[p][c] :
                     t <= passed[p][c][i].at /\ passed[p][c][i].at < t + Window} :
              p \in Process}

\* What the decorator gives: two windows may meet in any window_seconds, each process
\* counts for itself, and a counter that is lost starts again.
SlidingBound ==
    \A c \in Client, t \in Time :
        Cardinality(PassedFrom(c, t)) <= (2 * Cardinality(Process) + losses) * MaxRequests

\* "Rate limit: 30 requests per minute." (create_payment_link_view)
PerMinute ==
    \A c \in Client, t \in Time : Cardinality(PassedFrom(c, t)) <= MaxRequests
=============================================================================
