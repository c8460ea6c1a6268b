---------------------------- MODULE FreightQuote ----------------------------
(***************************************************************************)
(* A freight quote of apps/freight: calculate_freight and the clients of   *)
(* the Correios, with the two caches they keep, of the bearer token and of *)
(* the finished quotes.  The caches are in the memory of a gunicorn        *)
(* process, which handles one request at a time: the module is about one   *)
(* process, and the others are part of what may happen to its token.  The  *)
(* rest of the site keeps its entries in the same cache, which holds few.  *)
(*                                                                         *)
(* Time is counted in minutes.  A step is a call to the Correios; gunicorn *)
(* kills a process whose request takes longer than its --timeout.          *)
(***************************************************************************)
EXTENDS Integers, Sequences

CONSTANTS
    Package,      \* what a quote's cache key is made of: origin, CEP, weight, ...
    NoPackage,    \* no quote under way
    Price,        \* prices in cents, 0 for a product without a usable price
    Days,         \* delivery times in days
    NoDays,       \* no delivery time for a product
    ExtraDays,    \* CORREIOS_DIAS_ADICIONAIS
    Life,         \* minutes a token of the Correios may live
    NoToken,      \* nothing in the cache under TOKEN_CACHE_KEY
    Margin,       \* TOKEN_CACHE_MARGIN_SECONDS
    MinLife,      \* the least time a token is cached, and the least ISO life
    UnreadLife,   \* life of a token whose expiraEm cannot be read
    AbsentLife,   \* life of a token without an expiraEm
    QuoteLife,    \* _FREIGHT_CACHE_TTL
    NoQuote,      \* no quote cached, or shown
    MaxCalc,      \* minutes a request may take: gunicorn's --timeout
    MaxLogins,    \* bound on the tokens asked for
    MaxTime       \* bound on the clock

ASSUME ConstantsAssumption ==
    /\ NoPackage \notin Package
    /\ Price \subseteq Nat /\ 0 \in Price
    /\ Days \subseteq Nat /\ NoDays \notin Nat
    /\ ExtraDays \in Int
    /\ Life \subseteq Nat
    /\ Margin \in Nat /\ MinLife \in Nat \ {0} /\ UnreadLife \in Nat
    /\ AbsentLife \in Nat /\ QuoteLife \in Nat \ {0} /\ MaxCalc \in Nat
    /\ MaxLogins \in Nat /\ MaxTime \in Nat

\* The margin covers a request, and UnreadLife less the margin is MinLife at most.
ASSUME MarginAssumption ==
    /\ MaxCalc <= Margin
    /\ UnreadLife <= Margin + MinLife

VARIABLES
    now,       \* the clock
    logins,    \* tokens the Correios have issued to this process
    revoked,   \* serials of the tokens the Correios no longer accept
    token,     \* the cached token, and when it expires from the cache
    tokenEnd,
    quotes,    \* the cached quote of each package, and when it expires
    quoteEnd,
    pc,        \* the next call of the request that is handled
    package,   \* its package
    started,   \* when it began
    bearer,    \* the token it uses
    retried,   \* it is in the except branch of calculate
    prices,    \* what _batch_price returned
    priced,    \* and when (history)
    refused,   \* serials of the tokens refused to it (history)
    denied,    \* its login was refused (history)
    outcome,   \* how the last request ended
    shown      \* the quote it returned

caches == <<token, tokenEnd, quotes, quoteEnd>>
correios == <<logins, revoked>>
local == <<package, started, bearer, retried, prices, priced>>
history == <<refused, denied>>
result == <<outcome, shown>>
vars == <<now, correios, caches, pc, local, history, result>>

Time == 0..MaxTime

\* DEFAULT_PRODUCTS
Product == {"PAC", "SEDEX"}

\* How the Correios state a token's life: expiraEm in seconds, as an ISO date,
\* in a form calculate_token_ttl cannot read (a date without a zone), or not at
\* all.
Stamp == {"seconds", "iso", "unread", "absent"}

\* What the Correios answer to a login, named if it calls the token "token".
Token == [serial : 1..MaxLogins, stamp : Stamp, life : Life, issued : Time, named : BOOLEAN]

Option == [product : Product, price : Price, days : Nat \union {NoDays}]
Pair == Option \X Option
Quote == [options : Pair, priced : Time]

TypeOK ==
    /\ now \in Time
    /\ logins \in 0..MaxLogins
    /\ revoked \subseteq 1..MaxLogins
    /\ token \in Token \union {NoToken}
    /\ tokenEnd \in Nat
    /\ quotes \in [Package -> Quote \union {NoQuote}]
    /\ quoteEnd \in [Package -> Nat]
    /\ pc \in {"idle", "token", "dr", "price", "deadline"}
    /\ package \in Package \union {NoPackage}
    /\ started \in Time
    /\ bearer \in Token \union {NoToken}
    /\ pc \in {"dr", "price", "deadline"} => bearer \in Token
    /\ retried \in BOOLEAN
    /\ prices \in [Product -> Price]
    /\ priced \in Time
    /\ refused \subseteq 1..MaxLogins
    /\ denied \in BOOLEAN
    /\ outcome \in {"none", "answered", "refused", "failed"}
    /\ shown \in [options : Pair, priced : Time, at : Time] \union {NoQuote}

Init ==
    /\ now = 0
    /\ logins = 0
    /\ revoked = {}
    /\ token = NoToken /\ tokenEnd = 0
    /\ quotes = [k \in Package |-> NoQuote]
    /\ quoteEnd = [k \in Package |-> 0]
    /\ pc = "idle"
    /\ package = NoPackage
    /\ started = 0
    /\ bearer = NoToken
    /\ retried = FALSE
    /\ prices = [p \in Product |-> 0]
    /\ priced = 0
    /\ refused = {} /\ denied = FALSE
    /\ outcome = "none" /\ shown = NoQuote

-----------------------------------------------------------------------------
(* The request and its end                                                  *)

\* What a process holds for no request.
Clear ==
    /\ package' = NoPackage
    /\ bearer' = NoToken
    /\ retried' = FALSE
    /\ prices' = [p \in Product |-> 0]
    /\ priced' = 0
    /\ UNCHANGED started

\* An exception of the client becomes a FreightProviderUnavailable.
Fail(how) ==
    /\ pc' = "idle"
    /\ Clear
    /\ outcome' = how
    /\ UNCHANGED shown

Show(q) == shown' = [options |-> q.options, priced |-> q.priced, at |-> now]

\* calculate_freight begins: a cached quote is the answer.
CachedQuote(k) ==
    /\ pc = "idle"
    /\ quotes[k] # NoQuote /\ now < quoteEnd[k]
    /\ Show(quotes[k])
    /\ outcome' = "answered"
    /\ refused' = {} /\ denied' = FALSE
    /\ UNCHANGED <<now, correios, caches, pc, local>>

\* Without one the Correios are asked.
Ask(k) ==
    /\ pc = "idle"
    /\ ~(quotes[k] # NoQuote /\ now < quoteEnd[k])
    /\ pc' = "token"
    /\ package' = k
    /\ started' = now
    /\ refused' = {} /\ denied' = FALSE
    /\ outcome' = "none" /\ shown' = NoQuote
    /\ UNCHANGED <<now, correios, caches, bearer, retried, prices, priced>>

-----------------------------------------------------------------------------
(* The token                                                                *)

Larger(a, b) == IF a >= b THEN a ELSE b

\* calculate_token_ttl, and the "or 3600" before it, which takes a life of no
\* seconds for none at all.
TokenLife(stamp, life) ==
    CASE stamp = "seconds" -> IF life = 0 THEN AbsentLife ELSE life
      [] stamp = "iso"     -> Larger(life, MinLife)
      [] stamp = "unread"  -> UnreadLife
      [] stamp = "absent"  -> AbsentLife

\* Mutant: the token is cached for as long as it lives.
CacheLife_NoMargin(ttl) == Larger(ttl, MinLife)

\* Mutant: without a least time.
CacheLife_NoFloor(ttl) == ttl - Margin

\* _cache_token
CacheLife(ttl) == Larger(ttl - Margin, MinLife)

\* get_token_and_data finds a token in the cache: an answer that calls it
\* "access_token" is kept there, and never found.
TokenCached == token # NoToken /\ token.named /\ now < tokenEnd

CachedToken ==
    /\ pc = "token"
    /\ TokenCached
    /\ bearer' = token
    /\ pc' = "dr"
    /\ UNCHANGED <<now, correios, caches, package, started, retried, prices, priced, history, result>>

\* It finds none, and _authenticate returns an answer that _cache_token keeps.
Login(stamp, life, named) ==
    /\ pc = "token"
    /\ ~TokenCached
    /\ logins < MaxLogins
    /\ logins' = logins + 1
    /\ token' = [serial |-> logins + 1, stamp |-> stamp, life |-> life, issued |-> now,
                 named |-> named]
    /\ tokenEnd' = now + CacheLife(TokenLife(stamp, life))
    /\ UNCHANGED <<now, revoked, quotes, quoteEnd, history>>

\* calculate uses its "token" ...
LoginNamed(stamp, life) ==
    /\ Login(stamp, life, TRUE)
    /\ bearer' = token'
    /\ pc' = "dr"
    /\ UNCHANGED <<package, started, retried, prices, priced, result>>

\* ... or raises a KeyError where the token is its "access_token".
LoginUnnamed(stamp, life) ==
    /\ Login(stamp, life, FALSE)
    /\ Fail("failed")

\* 401 or 403, or an answer without a token: FreightAuthenticationError.
LoginDenied ==
    /\ pc = "token"
    /\ ~TokenCached
    /\ denied' = TRUE
    /\ Fail("refused")
    /\ UNCHANGED <<now, correios, caches, refused>>

\* A time-out, no connection, or another status.
LoginFails ==
    /\ pc = "token"
    /\ ~TokenCached
    /\ Fail("failed")
    /\ UNCHANGED <<now, correios, caches, history>>

\* resolve_dr: from the token, from the Meu Contrato API, or none.
ResolveDR ==
    /\ pc = "dr"
    /\ pc' = "price"
    /\ UNCHANGED <<now, correios, caches, local, history, result>>

\* A null where resolve_dr expects an object raises.
ResolveFails ==
    /\ pc = "dr"
    /\ Fail("failed")
    /\ UNCHANGED <<now, correios, caches, history>>

-----------------------------------------------------------------------------
(* Prices                                                                   *)

Expires(t) == t.issued + t.life

\* The Correios still accept the token.
Accepted(t) == t.serial \notin revoked /\ now < Expires(t)

\* Mutant: the token that was refused stays in the cache.
InvalidateToken_Kept == UNCHANGED <<token, tokenEnd>>

\* invalidate_token
InvalidateToken == token' = NoToken /\ tokenEnd' = 0

\* _batch_price raises FreightAuthenticationError, because the token has died or
\* for another reason of the Correios: the first time calculate tries again with
\* a new token.
Refused ==
    /\ pc = "price"
    /\ refused' = refused \union {bearer.serial}
    /\ IF retried
       THEN Fail("refused") /\ UNCHANGED <<token, tokenEnd>>
       ELSE /\ InvalidateToken
            /\ retried' = TRUE
            /\ pc' = "token"
            /\ UNCHANGED <<package, started, bearer, prices, priced, result>>
    /\ UNCHANGED <<now, correios, quotes, quoteEnd, denied>>

\* A time-out, no connection, another status, or an answer of another shape.
PricesFail ==
    /\ pc = "price"
    /\ Fail("failed")
    /\ UNCHANGED <<now, correios, caches, history>>

\* _parse_price_response: a product with an error, or without a price that can
\* be read, has none.
Prices(f) ==
    /\ pc = "price"
    /\ Accepted(bearer)
    /\ prices' = f
    /\ priced' = now
    /\ pc' = "deadline"
    /\ UNCHANGED <<now, correios, caches, package, started, bearer, retried, history, result>>

-----------------------------------------------------------------------------
(* Delivery times and the quote                                             *)

\* Mutant: a product without a price is the cheapest.
Cheaper_Unpriced(a, b) == a.price < b.price

\* The sort key of _sort_options, its parts in their order.
Cheaper(a, b) == a.price > 0 /\ (b.price = 0 \/ a.price < b.price)
Sooner(a, b) == a.days # NoDays /\ (b.days = NoDays \/ a.days < b.days)
Before(a, b) == Cheaper(a, b) \/ (a.price = b.price /\ Sooner(a, b))

\* get_additional_delivery_days
AdditionalDays == IF ExtraDays < 0 THEN 0 ELSE ExtraDays

\* An option of calculate, as calculate_freight writes it.
OptionOf(p, d) ==
    [product |-> p, price |-> prices[p],
     days |-> IF d[p] = NoDays THEN NoDays ELSE d[p] + AdditionalDays]

\* The options sorted: PAC, the first of DEFAULT_PRODUCTS, is the first of equals.
Options(d) ==
    LET pac == OptionOf("PAC", d)
        sedex == OptionOf("SEDEX", d)
    IN  IF Before(sedex, pac) THEN <<sedex, pac>> ELSE <<pac, sedex>>

NoDeadlines == [p \in Product |-> NoDays]

\* Mutant: a quote is cached for as long as an address.
QuoteTimeout_Week == 7 * 24 * 60

QuoteTimeout == QuoteLife

\* _batch_deadline, whose errors leave the quote without delivery times; then the
\* quote is cached and returned, unless no product has a price.
Deadlines(d) ==
    /\ pc = "deadline"
    /\ Accepted(bearer) \/ d = NoDeadlines
    /\ IF \A p \in Product : prices[p] = 0
       THEN Fail("failed") /\ UNCHANGED <<quotes, quoteEnd>>
       ELSE LET q == [options |-> Options(d), priced |-> priced]
            IN  /\ quotes' = [quotes EXCEPT ![package] = q]
                /\ quoteEnd' = [quoteEnd EXCEPT ![package] = now + QuoteTimeout]
                /\ Show(q)
                /\ outcome' = "answered"
                /\ pc' = "idle"
                /\ Clear
    /\ UNCHANGED <<now, correios, token, tokenEnd, history>>

-----------------------------------------------------------------------------
(* Time, the Correios and gunicorn                                          *)

Tick ==
    /\ now < MaxTime
    /\ pc # "idle" => now < started + MaxCalc
    /\ now' = now + 1
    /\ UNCHANGED <<correios, caches, pc, local, history, result>>

\* The Correios cease to accept a token before its time.
Revoke(s) ==
    /\ revoked' = revoked \union {s}
    /\ UNCHANGED <<now, logins, caches, pc, local, history, result>>

\* The cache is full when an entry is put in it, and drops others.
CullToken ==
    /\ pc = "idle"
    /\ token' = NoToken /\ tokenEnd' = 0
    /\ UNCHANGED <<now, correios, quotes, quoteEnd, pc, local, history, result>>

CullQuote(k) ==
    /\ pc = "idle"
    /\ quotes' = [quotes EXCEPT ![k] = NoQuote]
    /\ quoteEnd' = [quoteEnd EXCEPT ![k] = 0]
    /\ UNCHANGED <<now, correios, token, tokenEnd, pc, local, history, result>>

\* gunicorn replaces the process, and both caches are gone.
Restart ==
    /\ token' = NoToken /\ tokenEnd' = 0
    /\ quotes' = [k \in Package |-> NoQuote]
    /\ quoteEnd' = [k \in Package |-> 0]
    /\ pc' = "idle"
    /\ Clear
    /\ refused' = {} /\ denied' = FALSE
    /\ outcome' = "none" /\ shown' = NoQuote
    /\ UNCHANGED <<now, correios>>

Next ==
    \/ \E k \in Package : CachedQuote(k) \/ Ask(k) \/ CullQuote(k)
    \/ CachedToken \/ CullToken
    \/ \E stamp \in Stamp, life \in Life : LoginNamed(stamp, life) \/ LoginUnnamed(stamp, life)
    \/ LoginDenied \/ LoginFails
    \/ ResolveDR \/ ResolveFails
    \/ Refused \/ PricesFail
    \/ \E f \in [Product -> Price] : Prices(f)
    \/ \E d \in [Product -> Days \union {NoDays}] : Deadlines(d)
    \/ Tick
    \/ \E s \in 1..logins : Revoke(s)
    \/ Restart

Spec == Init /\ [][Next]_vars

-----------------------------------------------------------------------------
(* Properties                                                               *)

\* A quote fails for its credentials only if the login was refused or two tokens
\* were: a token that died in the cache costs a retry and never the quote.
RefusalIsExplained ==
    outcome = "refused" => denied \/ \E s, t \in refused : s # t

\* A token taken from the cache lives until the last call of the request, for
\* every life the Correios state that is long enough: the margin of the token
\* outlasts a request, and the least life it is cached for is its own.
TokenOutlivesRequest ==
    (pc \in {"dr", "price", "deadline"} /\ bearer.stamp # "absent"
        /\ bearer.life >= MinLife + MaxCalc) => now < Expires(bearer)

\* With a usable token in the cache the Correios are asked for another only when it
\* was kept for its least time, however short a life they state and however that
\* compares with the margin.
LoginsAreSpaced ==
    [][logins' > logins /\ token # NoToken /\ token.named => now >= token.issued + MinLife]_vars

\* The same of every answer that was taken for a token and put in the cache.
EveryTokenIsKept ==
    [][logins' > logins /\ token # NoToken => now >= token.issued + MinLife]_vars

\* The option calculate_freight_view marks as the best, the first, is one a client
\* can choose and the cheapest, and the other is not known to arrive sooner for the
\* same price, whatever prices and delivery times the Correios left out.
BestIsCheapest ==
    shown # NoQuote =>
        LET best == shown.options[1]
            other == shown.options[2]
        IN  /\ best.price > 0
            /\ other.price > 0 => /\ best.price <= other.price
                                  /\ best.price = other.price => ~Sooner(other, best)

\* A quote is shown with prices, and perhaps without the delivery times, of at
\* most ten minutes and a request before: what failed then is asked again.
QuoteIsRecent ==
    shown # NoQuote => shown.at < shown.priced + MaxCalc + QuoteLife
=============================================================================
