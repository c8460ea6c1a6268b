------------------------- MODULE FreightQuoteProofs -------------------------
(* Proofs of the properties of FreightQuote, for every value of its          *)
(* constants.                                                                *)
EXTENDS FreightQuote, TLAPS

-----------------------------------------------------------------------------
(* Types                                                                    *)

\* What the cache makes of a stated life is a number of minutes.
LEMMA LifeType ==
    ASSUME NEW stamp \in Stamp, NEW life \in Life
    PROVE  /\ TokenLife(stamp, life) \in Nat
           /\ CacheLife(TokenLife(stamp, life)) \in Nat
<1>1. life \in Nat /\ AbsentLife \in Nat /\ UnreadLife \in Nat /\ Margin \in Nat /\ MinLife \in Nat
      BY ConstantsAssumption
<1>2. TokenLife(stamp, life) \in Nat
      BY <1>1 DEF TokenLife, Larger, Stamp
<1>3. ASSUME NEW ttl \in Nat PROVE CacheLife(ttl) \in Nat
      BY <1>1 DEF CacheLife, Larger
<1> QED BY <1>2, <1>3

\* The options of a quote are two options.
LEMMA OptionsType ==
    ASSUME prices \in [Product -> Price], NEW d \in [Product -> Days \union {NoDays}]
    PROVE  Options(d) \in Pair
<1>1. ASSUME NEW p \in Product PROVE OptionOf(p, d) \in Option
  <2>1. prices[p] \in Price /\ d[p] \in Days \union {NoDays}
        OBVIOUS
  <2>2. ASSUME NEW x \in Nat PROVE x + AdditionalDays \in Nat
        BY ConstantsAssumption DEF AdditionalDays
  <2>3. d[p] # NoDays => d[p] \in Nat
        BY <2>1, ConstantsAssumption
  <2> QED BY <2>1, <2>2, <2>3 DEF OptionOf, Option
<1>2. OptionOf("PAC", d) \in Option /\ OptionOf("SEDEX", d) \in Option
      BY <1>1 DEF Product
<1> QED BY <1>2 DEF Options, Pair

\* Clear leaves every variable of the request with its type.
LEMMA ClearType ==
    ASSUME TypeOK, Clear
    PROVE  /\ package' \in Package \union {NoPackage}
           /\ started' \in Time
           /\ bearer' \in Token \union {NoToken}
           /\ retried' \in BOOLEAN
           /\ prices' \in [Product -> Price]
           /\ priced' \in Time
<1>1. 0 \in Price /\ 0 \in Time
      BY ConstantsAssumption DEF Time
<1>2. [p \in Product |-> 0] \in [Product -> Price]
      BY <1>1
<1> QED BY <1>1, <1>2 DEF TypeOK, Clear

\* What a login puts in the cache, whether or not its token can be used.
LEMMA LoginFacts ==
    ASSUME TypeOK, NEW stamp \in Stamp, NEW life \in Life, NEW named \in BOOLEAN,
           Login(stamp, life, named)
    PROVE  /\ token' \in Token /\ tokenEnd' \in Nat
           /\ token'.serial = logins' /\ token'.issued = now /\ token'.life = life
           /\ token'.stamp = stamp /\ token'.named = named
           /\ tokenEnd' = now + CacheLife(TokenLife(stamp, life))
           /\ pc = "token" /\ ~TokenCached
           /\ logins' = logins + 1 /\ logins' \in 0..MaxLogins
           /\ UNCHANGED <<now, revoked, quotes, quoteEnd, history>>
<1>1. CacheLife(TokenLife(stamp, life)) \in Nat
      BY LifeType
<1>2. logins + 1 \in 1..MaxLogins /\ logins + 1 \in 0..MaxLogins
      BY ConstantsAssumption DEF Login, TypeOK
<1>3. now \in Time /\ now \in Nat
      BY DEF TypeOK, Time
<1>4. token' = [serial |-> logins + 1, stamp |-> stamp, life |-> life, issued |-> now,
                named |-> named]
      BY DEF Login
<1> QED BY <1>1, <1>2, <1>3, <1>4 DEF Login, Token

\* Every variable keeps its type.
THEOREM TypeCorrect == Spec => []TypeOK
<1>1. Init => TypeOK
  <2>1. 0 \in Price /\ 0 \in Time /\ 0 \in 0..MaxLogins
        BY ConstantsAssumption DEF Time
  <2>2. [p \in Product |-> 0] \in [Product -> Price]
        BY <2>1
  <2>3. ASSUME Init PROVE TypeOK
    <3>1. quotes \in [Package -> Quote \union {NoQuote}] /\ quoteEnd \in [Package -> Nat]
          BY <2>3 DEF Init
    <3>2. tokenEnd \in Nat /\ revoked \subseteq 1..MaxLogins /\ refused \subseteq 1..MaxLogins
          BY <2>3 DEF Init
    <3> QED BY <2>1, <2>2, <2>3, <3>1, <3>2 DEF Init, TypeOK
  <2> QED BY <2>3
<1>2. ASSUME TypeOK, [Next]_vars PROVE TypeOK'
  <2> USE TypeOK DEF TypeOK
  <2>1. ASSUME NEW k \in Package, CachedQuote(k) PROVE TypeOK'
    <3>1. quotes[k] \in Quote
          BY <2>1 DEF CachedQuote
    <3>2. shown' \in [options : Pair, priced : Time, at : Time]
          BY <2>1, <3>1 DEF CachedQuote, Show, Quote
    <3> QED BY <2>1, <3>2 DEF CachedQuote, correios, caches, local
  <2>2. ASSUME NEW k \in Package, Ask(k) PROVE TypeOK'
        BY <2>2 DEF Ask, correios, caches
  <2>3. CASE CachedToken
        BY <2>3 DEF CachedToken, TokenCached, correios, caches, history, result
  <2>4. ASSUME NEW stamp \in Stamp, NEW life \in Life,
               LoginNamed(stamp, life) \/ LoginUnnamed(stamp, life)
        PROVE  TypeOK'
    <3>1. CASE LoginNamed(stamp, life)
          BY <3>1, LoginFacts DEF LoginNamed, history, result
    <3>2. CASE LoginUnnamed(stamp, life)
          BY <3>2, LoginFacts, ClearType DEF LoginUnnamed, Fail, history
    <3> QED BY <2>4, <3>1, <3>2
  <2>5. CASE LoginDenied
        BY <2>5, ClearType DEF LoginDenied, Fail, correios, caches
  <2>6. CASE LoginFails
        BY <2>6, ClearType DEF LoginFails, Fail, correios, caches, history
  <2>7. CASE ResolveDR
        BY <2>7 DEF ResolveDR, correios, caches, local, history, result
  <2>8. CASE ResolveFails
        BY <2>8, ClearType DEF ResolveFails, Fail, correios, caches, history
  <2>9. CASE Refused
    <3>1. bearer.serial \in 1..MaxLogins
          BY <2>9 DEF Refused, Token
    <3>2. refused' \subseteq 1..MaxLogins
          BY <2>9, <3>1 DEF Refused
    <3>3. CASE retried
          BY <2>9, <3>2, <3>3, ClearType DEF Refused, Fail, correios
    <3>4. CASE ~retried
          BY <2>9, <3>2, <3>4 DEF Refused, InvalidateToken, correios, result
    <3> QED BY <3>3, <3>4
  <2>10. CASE PricesFail
        BY <2>10, ClearType DEF PricesFail, Fail, correios, caches, history
  <2>11. ASSUME NEW f \in [Product -> Price], Prices(f) PROVE TypeOK'
        BY <2>11 DEF Prices, correios, caches, history, result
  <2>12. ASSUME NEW d \in [Product -> Days \union {NoDays}], Deadlines(d) PROVE TypeOK'
    <3> DEFINE q == [options |-> Options(d), priced |-> priced]
    <3>1. q \in Quote
          BY OptionsType DEF Quote
    <3>2. now + QuoteTimeout \in Nat
          BY ConstantsAssumption DEF QuoteTimeout, Time
    <3>3. [options |-> Options(d), priced |-> priced, at |-> now]
             \in [options : Pair, priced : Time, at : Time]
          BY OptionsType
    <3> HIDE DEF q
    <3>4. CASE \A p \in Product : prices[p] = 0
          BY <2>12, <3>4, ClearType DEF Deadlines, Fail, correios, history
    <3>5. CASE ~(\A p \in Product : prices[p] = 0)
      <4>1. /\ quotes' = [quotes EXCEPT ![package] = q]
            /\ quoteEnd' = [quoteEnd EXCEPT ![package] = now + QuoteTimeout]
            /\ Show(q) /\ outcome' = "answered" /\ pc' = "idle" /\ Clear
            /\ UNCHANGED <<now, correios, token, tokenEnd, history>>
            BY <2>12, <3>5 DEF Deadlines, q
      <4>2. shown' \in [options : Pair, priced : Time, at : Time]
            BY <4>1, <3>3 DEF Show, q
      <4>3. quotes' \in [Package -> Quote \union {NoQuote}]
            BY <4>1, <3>1
      <4>4. quoteEnd' \in [Package -> Nat]
            BY <4>1, <3>2
      <4> QED BY <4>1, <4>2, <4>3, <4>4, ClearType DEF correios, history
    <3> QED BY <3>4, <3>5
  <2>13. CASE Tick
        BY <2>13, ConstantsAssumption DEF Tick, Time, correios, caches, local, history, result
  <2>14. ASSUME NEW s \in 1..logins, Revoke(s) PROVE TypeOK'
        BY <2>14, ConstantsAssumption DEF Revoke, caches, local, history, result
  <2>15. CASE Restart
        BY <2>15, ClearType DEF Restart, correios
  <2>16. CASE UNCHANGED vars
        BY <2>16 DEF vars, correios, caches, local, history, result
  <2>17. CASE CullToken
        BY <2>17 DEF CullToken, correios, local, history, result
  <2>18. ASSUME NEW k \in Package, CullQuote(k) PROVE TypeOK'
        BY <2>18 DEF CullQuote, correios, local, history, result
  <2> HIDE DEF TypeOK
  <2>19. ASSUME NEW k \in Package, CachedQuote(k) \/ Ask(k) \/ CullQuote(k) PROVE TypeOK'
         BY <2>1, <2>2, <2>18, <2>19
  <2> QED BY <1>2, <2>17, <2>19, <2>3, <2>4, <2>5, <2>6, <2>7, <2>8, <2>9, <2>10, <2>11, <2>12, <2>13,
             <2>14, <2>15, <2>16 DEF Next
<1> QED BY <1>1, <1>2, PTL DEF Spec

-----------------------------------------------------------------------------
(* A refused token                                                          *)

\* A request that is in its retry has had one token refused, which is no longer in
\* the cache, and every token issued since has another serial.
RetryInv ==
    /\ token # NoToken => token.serial \in 1..logins
    /\ pc \in {"dr", "price", "deadline"} => bearer.serial \in 1..logins
    /\ refused \subseteq 1..logins
    /\ pc = "idle" => ~retried
    /\ pc # "idle" => outcome # "refused"
    /\ pc # "idle" /\ ~retried => refused = {}
    /\ pc # "idle" /\ retried => \E s \in refused : TRUE
    /\ pc = "token" /\ retried => token = NoToken
    /\ pc \in {"dr", "price", "deadline"} /\ retried => bearer.serial \notin refused
    /\ RefusalIsExplained

\* A failed or finished request that leaves its tokens alone keeps the invariant.
LEMMA EndKeepsRetryInv ==
    ASSUME RetryInv, pc' = "idle", ~retried', UNCHANGED <<token, logins, refused>>,
           outcome' # "refused"
    PROVE  RetryInv'
BY DEF RetryInv, RefusalIsExplained

\* A quote fails for its credentials only if the login was refused or two tokens
\* were.
THEOREM RefusalExplained == Spec => []RefusalIsExplained
<1>1. Init => RetryInv
      BY DEF Init, RetryInv, RefusalIsExplained
<1>2. ASSUME TypeOK, RetryInv, [Next]_vars PROVE RetryInv'
  <2> USE RetryInv
  <2>0. logins \in Nat /\ logins \in Int
        BY <1>2, ConstantsAssumption DEF TypeOK
  <2>1. ASSUME NEW k \in Package, CachedQuote(k) \/ Ask(k) \/ CullQuote(k) PROVE RetryInv'
    <3>1. CASE CachedQuote(k)
          BY <3>1 DEF CachedQuote, RetryInv, RefusalIsExplained, correios, caches, local
    <3>2. CASE Ask(k)
          BY <3>2 DEF Ask, RetryInv, RefusalIsExplained, correios, caches
    <3>3. CASE CullQuote(k)
          BY <3>3 DEF CullQuote, RetryInv, RefusalIsExplained, correios, local, history, result
    <3> QED BY <2>1, <3>1, <3>2, <3>3
  <2>2. CASE CachedToken
        BY <2>2 DEF CachedToken, TokenCached, RetryInv, RefusalIsExplained, correios, caches,
                    history, result
  <2>3. ASSUME NEW stamp \in Stamp, NEW life \in Life,
               LoginNamed(stamp, life) \/ LoginUnnamed(stamp, life)
        PROVE  RetryInv'
    <3>1. /\ logins' = logins + 1 /\ token'.serial = logins' /\ pc = "token"
          /\ UNCHANGED <<refused, denied>>
          BY <1>2, <2>3, LoginFacts DEF LoginNamed, LoginUnnamed, history
    <3>2. logins' \in 1..logins' /\ logins' \notin 1..logins /\ 1..logins \subseteq 1..logins'
          BY <2>0, <3>1
    <3>3. CASE LoginNamed(stamp, life)
          BY <3>1, <3>2, <3>3 DEF LoginNamed, RetryInv, RefusalIsExplained, result
    <3>4. CASE LoginUnnamed(stamp, life)
          BY <3>1, <3>2, <3>4 DEF LoginUnnamed, Fail, Clear, RetryInv, RefusalIsExplained
    <3> QED BY <2>3, <3>3, <3>4
  <2>4. CASE LoginDenied
        BY <2>4 DEF LoginDenied, Fail, Clear, RetryInv, RefusalIsExplained, correios, caches
  <2>5. CASE LoginFails \/ ResolveFails \/ PricesFail
        BY <2>5, EndKeepsRetryInv
           DEF LoginFails, ResolveFails, PricesFail, Fail, Clear, correios, caches, history
  <2>6. CASE ResolveDR
        BY <2>6 DEF ResolveDR, RetryInv, RefusalIsExplained, correios, caches, local, history,
                    result
  <2>7. CASE Refused
    <3>1. bearer.serial \in 1..logins /\ refused' = refused \union {bearer.serial}
          BY <2>7 DEF Refused, RetryInv
    <3>2. CASE retried
      <4>1. bearer.serial \notin refused /\ \E s \in refused : TRUE
            BY <2>7, <3>2 DEF Refused, RetryInv
      <4>2. \E s, t \in refused' : s # t
            BY <3>1, <4>1
      <4> QED BY <2>7, <3>1, <3>2, <4>2
              DEF Refused, Fail, Clear, RetryInv, RefusalIsExplained, correios
    <3>3. CASE ~retried
          BY <2>7, <3>1, <3>3
             DEF Refused, InvalidateToken, RetryInv, RefusalIsExplained, correios, result
    <3> QED BY <3>2, <3>3
  <2>8. ASSUME NEW f \in [Product -> Price], Prices(f) PROVE RetryInv'
        BY <2>8 DEF Prices, RetryInv, RefusalIsExplained, correios, caches, history, result
  <2>9. ASSUME NEW d \in [Product -> Days \union {NoDays}], Deadlines(d) PROVE RetryInv'
    <3>1. /\ pc' = "idle" /\ ~retried' /\ outcome' # "refused"
          /\ UNCHANGED <<token, logins, refused>>
          BY <2>9 DEF Deadlines, Fail, Clear, correios, history
    <3> QED BY <3>1, EndKeepsRetryInv
  <2>10. CASE Tick
        BY <2>10 DEF Tick, RetryInv, RefusalIsExplained, correios, caches, local, history, result
  <2>11. ASSUME NEW s \in 1..logins, Revoke(s) PROVE RetryInv'
        BY <2>11 DEF Revoke, RetryInv, RefusalIsExplained, caches, local, history, result
  <2>12. CASE Restart
        BY <2>12 DEF Restart, Clear, RetryInv, RefusalIsExplained, correios
  <2>13. CASE UNCHANGED vars
        BY <2>13 DEF vars, RetryInv, RefusalIsExplained, correios, caches, local, history, result
  <2>14. CASE CullToken
        BY <2>14 DEF CullToken, RetryInv, RefusalIsExplained, correios, local, history, result
  <2> QED BY <1>2, <2>1, <2>2, <2>3, <2>4, <2>5, <2>6, <2>7, <2>8, <2>9, <2>10, <2>11, <2>12,
             <2>13, <2>14 DEF Next
<1>3. RetryInv => RefusalIsExplained
      BY DEF RetryInv
<1> QED BY <1>1, <1>2, <1>3, TypeCorrect, PTL DEF Spec

-----------------------------------------------------------------------------
(* The life of a token and the age of a quote                               *)

LongLived(t) == t.stamp # "absent" /\ t.life >= MinLife + MaxCalc

\* A token that lives long enough outlives the cache by a request.
LEMMA CacheEndsEarly ==
    ASSUME NEW t \in Token, LongLived(t)
    PROVE  CacheLife(TokenLife(t.stamp, t.life)) + MaxCalc <= t.life
<1>1. t.life \in Nat /\ t.stamp \in Stamp
      BY ConstantsAssumption DEF Token
<1>2. /\ Margin \in Nat /\ MinLife \in Nat \ {0} /\ UnreadLife \in Nat /\ MaxCalc \in Nat
      /\ MaxCalc <= Margin /\ UnreadLife <= Margin + MinLife
      BY ConstantsAssumption, MarginAssumption
<1>3. t.life >= MinLife + MaxCalc /\ t.life # 0 /\ t.stamp \in {"seconds", "iso", "unread"}
      BY <1>1, <1>2 DEF LongLived, Stamp
<1>4. TokenLife(t.stamp, t.life) \in {t.life, UnreadLife}
      BY <1>1, <1>2, <1>3 DEF TokenLife, Larger
<1>5. ASSUME NEW n \in {t.life, UnreadLife} PROVE CacheLife(n) + MaxCalc <= t.life
      BY <1>1, <1>2, <1>3 DEF CacheLife, Larger
<1> QED BY <1>4, <1>5

BestFirst(o) ==
    /\ o[1].price > 0
    /\ o[2].price > 0 => /\ o[1].price <= o[2].price
                         /\ o[1].price = o[2].price => ~Sooner(o[2], o[1])

\* The order of _sort_options puts the best of two options first, if one of them has
\* a price.
LEMMA SortedIsBestFirst ==
    ASSUME NEW a \in Option, NEW b \in Option, a.price # 0 \/ b.price # 0
    PROVE  BestFirst(IF Before(b, a) THEN <<b, a>> ELSE <<a, b>>)
<1>1. a.price \in Nat /\ b.price \in Nat
      BY ConstantsAssumption DEF Option
<1>2. ASSUME NEW x \in Option, NEW y \in Option PROVE Sooner(x, y) => ~Sooner(y, x)
  <2>1. x.days # NoDays /\ y.days # NoDays => x.days \in Nat /\ y.days \in Nat
        BY DEF Option
  <2> QED BY <2>1 DEF Sooner
<1>3. CASE Before(b, a)
  <2>1. Cheaper(b, a) \/ (a.price = b.price /\ ~Sooner(a, b))
        BY <1>2, <1>3 DEF Before
  <2>2. b.price > 0 /\ (a.price > 0 => b.price <= a.price /\ (b.price = a.price => ~Sooner(a, b)))
        BY <1>1, <2>1 DEF Cheaper
  <2> QED BY <1>3, <2>2 DEF BestFirst
<1>4. CASE ~Before(b, a)
  <2>1. ~Cheaper(b, a) /\ (a.price = b.price => ~Sooner(b, a))
        BY <1>4 DEF Before
  <2>2. a.price > 0 /\ (b.price > 0 => a.price <= b.price /\ (a.price = b.price => ~Sooner(b, a)))
        BY <1>1, <2>1 DEF Cheaper
  <2> QED BY <1>4, <2>2 DEF BestFirst
<1> QED BY <1>3, <1>4

\* So the quote that is cached and shown has its best option first.
LEMMA OptionsBestFirst ==
    ASSUME prices \in [Product -> Price], NEW d \in [Product -> Days \union {NoDays}],
           ~(\A p \in Product : prices[p] = 0)
    PROVE  BestFirst(Options(d))
<1>1. ASSUME NEW p \in Product PROVE OptionOf(p, d) \in Option /\ OptionOf(p, d).price = prices[p]
  <2>1. prices[p] \in Price /\ d[p] \in Days \union {NoDays}
        OBVIOUS
  <2>2. ASSUME NEW x \in Nat PROVE x + AdditionalDays \in Nat
        BY ConstantsAssumption DEF AdditionalDays
  <2>3. d[p] # NoDays => d[p] \in Nat
        BY <2>1, ConstantsAssumption
  <2> QED BY <2>1, <2>2, <2>3 DEF OptionOf, Option
<1> DEFINE pac == OptionOf("PAC", d)
           sedex == OptionOf("SEDEX", d)
<1>2. pac \in Option /\ sedex \in Option /\ (pac.price # 0 \/ sedex.price # 0)
      BY <1>1 DEF Product
<1>3. Options(d) = IF Before(sedex, pac) THEN <<sedex, pac>> ELSE <<pac, sedex>>
      BY DEF Options
<1> HIDE DEF pac, sedex
<1> QED BY <1>2, <1>3, SortedIsBestFirst

\* A request ends within MaxCalc of its beginning; a token is cached for what
\* _cache_token says, and one that a request uses outlives it; a cached quote is
\* dropped QuoteLife after a request, and has its best option first.
AgeInv ==
    /\ token # NoToken => tokenEnd = token.issued + CacheLife(TokenLife(token.stamp, token.life))
    /\ pc # "idle" => started <= now /\ now <= started + MaxCalc
    /\ (pc \in {"dr", "price", "deadline"} /\ LongLived(bearer))
          => started + MaxCalc < Expires(bearer)
    /\ pc = "deadline" => started <= priced
    /\ \A k \in Package : quotes[k] # NoQuote =>
          /\ quoteEnd[k] <= quotes[k].priced + MaxCalc + QuoteLife
          /\ BestFirst(quotes[k].options)
    /\ shown # NoQuote => BestFirst(shown.options)
    /\ QuoteIsRecent

\* A request that ends without a quote keeps the invariant.
LEMMA EndKeepsAgeInv ==
    ASSUME AgeInv, pc' = "idle", UNCHANGED <<caches, shown>>
    PROVE  AgeInv'
BY DEF AgeInv, QuoteIsRecent, caches

\* The ages of tokens and quotes hold in every state.
THEOREM AgesHold == Spec => []AgeInv
<1>1. Init => AgeInv
      BY DEF Init, AgeInv, QuoteIsRecent
<1>2. ASSUME TypeOK, AgeInv, [Next]_vars PROVE AgeInv'
  <2> USE AgeInv
  <2>0. /\ now \in Nat /\ started \in Nat /\ priced \in Nat /\ MaxCalc \in Nat
        /\ QuoteLife \in Nat \ {0}
        BY <1>2, ConstantsAssumption DEF TypeOK, Time
  <2>1. ASSUME NEW k \in Package, CachedQuote(k) PROVE AgeInv'
    <3>1. quotes[k] \in Quote /\ quoteEnd[k] \in Nat
          BY <1>2, <2>1 DEF CachedQuote, TypeOK
    <3>2. quotes[k].priced \in Nat
          BY <3>1 DEF Quote, Time
    <3>3. now < quotes[k].priced + MaxCalc + QuoteLife /\ BestFirst(quotes[k].options)
          BY <2>0, <2>1, <3>1, <3>2 DEF CachedQuote, AgeInv
    <3>4. shown'.at = now /\ shown'.priced = quotes[k].priced /\ shown'.options = quotes[k].options
          BY <2>1 DEF CachedQuote, Show
    <3> QED BY <2>1, <3>3, <3>4 DEF CachedQuote, AgeInv, QuoteIsRecent, caches, local
  <2>2. ASSUME NEW k \in Package, Ask(k) PROVE AgeInv'
        BY <2>0, <2>2 DEF Ask, AgeInv, QuoteIsRecent, caches
  <2>3. CASE CachedToken
    <3>1. token \in Token /\ tokenEnd \in Nat /\ now < tokenEnd /\ bearer' = token
          BY <1>2, <2>3 DEF CachedToken, TokenCached, TypeOK
    <3>2. ASSUME LongLived(token) PROVE started + MaxCalc < Expires(token)
      <4> DEFINE c == CacheLife(TokenLife(token.stamp, token.life))
      <4>1. c \in Nat /\ token.issued \in Nat /\ token.life \in Nat
        <5>1. token.stamp \in Stamp /\ token.life \in Life /\ token.issued \in Nat
              BY <3>1 DEF Token, Time
        <5>2. token.life \in Nat
              BY <5>1, ConstantsAssumption
        <5>3. c \in Nat
              BY <5>1, LifeType
        <5> QED BY <5>1, <5>2, <5>3
      <4>2. tokenEnd = token.issued + c /\ c + MaxCalc <= token.life /\ started <= now
            BY <2>3, <3>1, <3>2, CacheEndsEarly DEF CachedToken, TokenCached, AgeInv
      <4> HIDE DEF c
      <4> QED BY <2>0, <3>1, <4>1, <4>2 DEF Expires
    <3> QED BY <2>3, <3>1, <3>2
            DEF CachedToken, AgeInv, QuoteIsRecent, LongLived, Expires, correios, caches, result
  <2>4. ASSUME NEW stamp \in Stamp, NEW life \in Life,
               LoginNamed(stamp, life) \/ LoginUnnamed(stamp, life)
        PROVE  AgeInv'
    <3>1. /\ tokenEnd' = token'.issued + CacheLife(TokenLife(token'.stamp, token'.life))
          /\ token'.issued = now /\ token'.life = life /\ pc = "token"
          /\ UNCHANGED <<now, quotes, quoteEnd>>
          BY <1>2, <2>4, LoginFacts DEF LoginNamed, LoginUnnamed
    <3>2. CASE LoginNamed(stamp, life)
      <4>1. bearer' = token' /\ pc' = "dr" /\ UNCHANGED <<started, priced, shown>>
            BY <3>2 DEF LoginNamed, result
      <4>2. ASSUME LongLived(bearer') PROVE started + MaxCalc < Expires(bearer')
        <5>1. life \in Nat /\ life >= MinLife + MaxCalc /\ MinLife \in Nat \ {0} /\ started <= now
              BY <3>1, <4>1, <4>2, ConstantsAssumption DEF LongLived, AgeInv
        <5>2. Expires(bearer') = now + life
              BY <3>1, <4>1 DEF Expires
        <5> QED BY <2>0, <5>1, <5>2
      <4> QED BY <3>1, <4>1, <4>2 DEF AgeInv, QuoteIsRecent, LongLived, Expires
    <3>3. CASE LoginUnnamed(stamp, life)
          BY <3>1, <3>3 DEF LoginUnnamed, Fail, AgeInv, QuoteIsRecent
    <3> QED BY <2>4, <3>2, <3>3
  <2>5. CASE LoginDenied \/ LoginFails \/ ResolveFails \/ PricesFail
        BY <2>5, EndKeepsAgeInv DEF LoginDenied, LoginFails, ResolveFails, PricesFail, Fail
  <2>6. CASE ResolveDR
        BY <2>6 DEF ResolveDR, AgeInv, QuoteIsRecent, caches, local, result
  <2>7. CASE Refused
        BY <2>7 DEF Refused, Fail, InvalidateToken, AgeInv, QuoteIsRecent, result
  <2>8. ASSUME NEW f \in [Product -> Price], Prices(f) PROVE AgeInv'
        BY <2>8 DEF Prices, AgeInv, QuoteIsRecent, caches, result
  <2>9. ASSUME NEW d \in [Product -> Days \union {NoDays}], Deadlines(d) PROVE AgeInv'
    <3>1. CASE \A p \in Product : prices[p] = 0
      <4>1. pc' = "idle" /\ UNCHANGED <<caches, shown>>
            BY <2>9, <3>1 DEF Deadlines, Fail, caches
      <4> QED BY <4>1, EndKeepsAgeInv
    <3>2. CASE ~(\A p \in Product : prices[p] = 0)
      <4> DEFINE q == [options |-> Options(d), priced |-> priced]
      <4>1. q.priced = priced /\ q.options = Options(d)
            OBVIOUS
      <4>2. /\ quotes' = [quotes EXCEPT ![package] = q]
            /\ quoteEnd' = [quoteEnd EXCEPT ![package] = now + QuoteTimeout]
            /\ pc = "deadline" /\ pc' = "idle"
            /\ shown' = [options |-> Options(d), priced |-> priced, at |-> now]
            /\ UNCHANGED <<token, tokenEnd>>
            BY <2>9, <3>2 DEF Deadlines, Show
      <4>3. BestFirst(Options(d))
            BY <1>2, <3>2, OptionsBestFirst DEF TypeOK
      <4>4. now <= priced + MaxCalc
            BY <2>0, <4>2 DEF AgeInv
      <4>5. now + QuoteTimeout <= priced + MaxCalc + QuoteLife
            BY <2>0, <4>4 DEF QuoteTimeout
      <4>6. now < priced + MaxCalc + QuoteLife
            BY <2>0, <4>4
      <4> HIDE DEF q
      <4>7. ASSUME NEW k \in Package, quotes'[k] # NoQuote
            PROVE  /\ quoteEnd'[k] <= quotes'[k].priced + MaxCalc + QuoteLife
                   /\ BestFirst(quotes'[k].options)
        <5>1. CASE k = package
              BY <1>2, <4>1, <4>2, <4>3, <4>5, <5>1 DEF TypeOK
        <5>2. CASE k # package
          <6>1. quotes'[k] = quotes[k] /\ quoteEnd'[k] = quoteEnd[k]
                BY <1>2, <4>2, <5>2 DEF TypeOK
          <6> QED BY <4>7, <6>1 DEF AgeInv
        <5> QED BY <5>1, <5>2
      <4>8. shown'.options = Options(d) /\ shown'.priced = priced /\ shown'.at = now
            BY <4>2
      <4> QED BY <4>2, <4>3, <4>6, <4>7, <4>8 DEF AgeInv, QuoteIsRecent
    <3> QED BY <3>1, <3>2
  <2>10. CASE Tick
    <3>1. pc # "idle" => started <= now' /\ now' <= started + MaxCalc
          BY <2>0, <2>10 DEF Tick, AgeInv
    <3> QED BY <2>10, <3>1 DEF Tick, AgeInv, QuoteIsRecent, caches, local, result
  <2>11. ASSUME NEW s \in 1..logins, Revoke(s) PROVE AgeInv'
        BY <2>11 DEF Revoke, AgeInv, QuoteIsRecent, caches, local, result
  <2>12. CASE Restart
        BY <2>12 DEF Restart, AgeInv, QuoteIsRecent
  <2>13. CASE UNCHANGED vars
        BY <2>13 DEF vars, AgeInv, QuoteIsRecent, caches, local, result
  <2>14. ASSUME NEW k \in Package, CachedQuote(k) \/ Ask(k) PROVE AgeInv'
        BY <2>1, <2>2, <2>14
  <2>15. CASE CullToken
        BY <2>15 DEF CullToken, AgeInv, QuoteIsRecent, local, result
  <2>16. ASSUME NEW k \in Package, CullQuote(k) PROVE AgeInv'
    <3>1. \A j \in Package : quotes'[j] # NoQuote => quotes'[j] = quotes[j] /\ quoteEnd'[j] = quoteEnd[j]
          BY <1>2, <2>16 DEF CullQuote, TypeOK
    <3> QED BY <2>16, <3>1 DEF CullQuote, AgeInv, QuoteIsRecent, local, result
  <2> QED BY <1>2, <2>3, <2>4, <2>5, <2>6, <2>7, <2>8, <2>9, <2>10, <2>11, <2>12, <2>13, <2>14,
             <2>15, <2>16 DEF Next
<1> QED BY <1>1, <1>2, TypeCorrect, PTL DEF Spec

\* A token taken from the cache lives until the last call of the request.
THEOREM TokenLives == Spec => []TokenOutlivesRequest
<1>1. TypeOK /\ AgeInv => TokenOutlivesRequest
  <2> SUFFICES ASSUME TypeOK, AgeInv, pc \in {"dr", "price", "deadline"}, LongLived(bearer)
               PROVE  now < Expires(bearer)
      BY DEF TokenOutlivesRequest, LongLived
  <2>1. now \in Nat /\ started \in Nat /\ MaxCalc \in Nat
        BY ConstantsAssumption DEF TypeOK, Time
  <2>2. bearer \in Token
        BY DEF TypeOK
  <2>3. bearer.issued \in Nat /\ bearer.life \in Nat
    <3>1. bearer.issued \in Nat /\ bearer.life \in Life
          BY <2>2 DEF Token, Time
    <3> QED BY <3>1, ConstantsAssumption
  <2>4. Expires(bearer) \in Nat
        BY <2>3 DEF Expires
  <2> QED BY <2>1, <2>4 DEF AgeInv
<1> QED BY <1>1, TypeCorrect, AgesHold, PTL

\* The option marked as the best is the cheapest, and the soonest of the cheapest.
THEOREM BestCheapest == Spec => []BestIsCheapest
<1>1. AgeInv => BestIsCheapest
      BY DEF AgeInv, BestIsCheapest, BestFirst
<1> QED BY <1>1, AgesHold, PTL

\* A quote is shown with prices of at most QuoteLife and a request before.
THEOREM QuoteRecent == Spec => []QuoteIsRecent
<1>1. AgeInv => QuoteIsRecent
      BY DEF AgeInv
<1> QED BY <1>1, AgesHold, PTL

-----------------------------------------------------------------------------
(* Logins                                                                   *)

\* A cached token is kept for its least time at least.
KeptInv == token # NoToken => tokenEnd >= token.issued + MinLife

\* _cache_token keeps every token for MinLife at least.
LEMMA CacheLifeFloor ==
    ASSUME NEW stamp \in Stamp, NEW life \in Life
    PROVE  CacheLife(TokenLife(stamp, life)) >= MinLife
<1>1. TokenLife(stamp, life) \in Nat /\ Margin \in Nat /\ MinLife \in Nat
      BY LifeType, ConstantsAssumption
<1> QED BY <1>1 DEF CacheLife, Larger

\* A login replaces a token that could be used only after its least time in the cache.
THEOREM LoginsSpaced == Spec => LoginsAreSpaced
<1>1. Init => KeptInv
      BY DEF Init, KeptInv
<1>2. ASSUME TypeOK, [Next]_vars
      PROVE  \/ UNCHANGED <<token, tokenEnd, logins>>
             \/ token' = NoToken /\ UNCHANGED logins
             \/ \E stamp \in Stamp, life \in Life, named \in BOOLEAN : Login(stamp, life, named)
      BY <1>2 DEF Next, CachedQuote, Ask, CachedToken, LoginNamed, LoginUnnamed, LoginDenied, LoginFails,
         ResolveDR, ResolveFails, Refused, InvalidateToken, PricesFail, Prices, Deadlines, Tick,
         Revoke, CullToken, CullQuote, Restart, correios, caches, vars
<1>3. ASSUME TypeOK, KeptInv, [Next]_vars PROVE KeptInv'
  <2>1. ASSUME NEW stamp \in Stamp, NEW life \in Life, NEW named \in BOOLEAN,
               Login(stamp, life, named)
        PROVE  KeptInv'
    <3> DEFINE kept == CacheLife(TokenLife(stamp, life))
    <3>1. kept \in Nat /\ kept >= MinLife
          BY LifeType, CacheLifeFloor
    <3>2. token'.issued = now /\ tokenEnd' = now + kept
          BY <1>3, <2>1, LoginFacts
    <3>3. now \in Nat /\ MinLife \in Nat
          BY <1>3, ConstantsAssumption DEF TypeOK, Time
    <3> HIDE DEF kept
    <3> QED BY <3>1, <3>2, <3>3 DEF KeptInv
  <2>2. CASE UNCHANGED <<token, tokenEnd, logins>> \/ token' = NoToken
        BY <1>3, <2>2 DEF KeptInv
  <2> QED BY <1>2, <1>3, <2>1, <2>2
<1>4. ASSUME TypeOK, KeptInv, [Next]_vars, logins' > logins, token # NoToken, token.named
      PROVE  now >= token.issued + MinLife
  <2>1. logins' # logins
        BY <1>4 DEF TypeOK
  <2>2. \E stamp \in Stamp, life \in Life, named \in BOOLEAN : Login(stamp, life, named)
        BY <1>2, <1>4, <2>1
  <2>3. ~(now < tokenEnd)
        BY <1>4, <2>2 DEF Login, TokenCached
  <2>4. token \in Token
        BY <1>4 DEF TypeOK
  <2>5. token.issued \in Time
        BY <2>4 DEF Token
  <2>6. now \in Nat /\ tokenEnd \in Nat /\ token.issued \in Nat /\ MinLife \in Nat
        BY <1>4, <2>5, ConstantsAssumption DEF TypeOK, Time
  <2> QED BY <1>4, <2>3, <2>6 DEF KeptInv
<1>5. TypeOK /\ KeptInv /\ [Next]_vars =>
        [logins' > logins /\ token # NoToken /\ token.named => now >= token.issued + MinLife]_vars
      BY <1>4
<1> QED BY <1>1, <1>3, <1>5, TypeCorrect, PTL DEF Spec, LoginsAreSpaced
=============================================================================
