-------------------------- MODULE RateFetchProofs --------------------------
(***************************************************************************)
(* A fetch is bounded by its total backoff time, its client's timeout and  *)
(* its context, and computes the right ratio, for any configuration.       *)
(***************************************************************************)
EXTENDS RateFetch, TLAPS

\* Attempts start, and waits end, within the total time; nothing happens after
\* the deadline.
TimeInv ==
  /\ deadline \in Nat /\ elapsed \in Nat /\ due \in Nat
  /\ phase = "attempt" => elapsed <= Total
  /\ phase = "wait" => due <= Total
  /\ ReturnsInTime

\* The time of a fetch is bounded at the start and by every step of it.
THEOREM FetchReturnsInTime == Spec => []ReturnsInTime
<1> USE BackoffAssumption
<1>1. Init => TimeInv
  BY DEF Init, TimeInv, ReturnsInTime, NoDeadline
<1>2. TimeInv /\ [Next]_vars => TimeInv'
  <2> SUFFICES ASSUME TimeInv, [Next]_vars PROVE TimeInv'
    OBVIOUS
  <2> USE DEF TimeInv, ReturnsInTime, ContextDone, NoDeadline, Return
  <2>1. ASSUME NEW d \in Durations, NEW res, Succeed(d, res) PROVE TimeInv'
    BY <2>1 DEF Succeed
  <2>2. ASSUME NEW d \in Durations, FailForGood(d) PROVE TimeInv'
    BY <2>2 DEF FailForGood
  <2>3. ASSUME NEW d \in Durations, NEW n \in 0..(2 * MaxInterval), Backoff(d, n) PROVE TimeInv'
    BY <2>3 DEF Backoff, GivesUp
  <2>4. ASSUME NEW d \in Durations, NEW n \in 0..(2 * MaxInterval), Stop(d, n) PROVE TimeInv'
    BY <2>4 DEF Stop, GivesUp, EndOf
  <2>5. CASE Retry
    BY <2>5 DEF Retry
  <2>6. CASE Cancelled
    BY <2>6 DEF Cancelled
  <2>7. CASE UNCHANGED vars
    BY <2>7 DEF vars
  <2> QED
    BY <2>1, <2>2, <2>3, <2>4, <2>5, <2>6, <2>7 DEF Next, Step, Returned
<1>3. TimeInv => ReturnsInTime
  BY DEF TimeInv
<1> QED
  BY <1>1, <1>2, <1>3, PTL DEF Spec

----------------------------------------------------------------------------

\* The response a price was computed from.
PriceInv ==
  /\ pair \in ValidPairs
  /\ response # NoResponse =>
       response \in Responses(pair) /\ price = QuotePrice(pair, response)

\* The switch of Get agrees with the ratio of worths, whatever the base.
LEMMA CrossRateIsRatio ==
  ASSUME NEW p \in ValidPairs, NEW res \in Responses(p), "pair" \notin DOMAIN res.rates
  PROVE  /\ CrossRate(p, res) # NoPrice <=> /\ Worth(res, p.quote) # {}
                                            /\ Worth(res, p.base) \ {0} # {}
         /\ CrossRate(p, res) # NoPrice =>
              \A b \in Worth(res, p.base), q \in Worth(res, p.quote) :
                CrossRate(p, res).num * b = CrossRate(p, res).den * q
<1> USE BackoffAssumption
<1>1. p.base # p.quote /\ p.base \in SupportedCurrency /\ p.quote \in SupportedCurrency
  BY DEF ValidPairs
<1>2. \A c \in DOMAIN res.rates : res.rates[c] \in Nat
  <2>1. res.rates \in UNION {[K -> Values] : K \in SUBSET (Symbols(p) \cup {"pair"})}
    BY DEF Responses
  <2>2. PICK K \in SUBSET (Symbols(p) \cup {"pair"}) : res.rates \in [K -> Values]
    BY <2>1
  <2> QED
    BY <2>2
<1>3. CASE res.base = p.base
  BY <1>1, <1>2, <1>3 DEF CrossRate, Direct, Known, Nonzero, Worth, Price, NoPrice
<1>4. CASE res.base = p.quote
  BY <1>1, <1>2, <1>4 DEF CrossRate, Inverse, Known, Nonzero, Worth, Price, NoPrice
<1>5. CASE res.base # p.base /\ res.base # p.quote
  <2>1. CrossRate(p, res) = Quotient(p, res)
    BY <1>5 DEF CrossRate
  <2>2. \A c \in {p.base, p.quote} :
          Worth(res, c) = IF Known(res, c) THEN {res.rates[c]} ELSE {}
    BY <1>5 DEF Worth, Known
  <2>3. CASE Known(res, p.quote) /\ Nonzero(res, p.base)
    <3>1. Quotient(p, res) = [num |-> res.rates[p.quote], den |-> res.rates[p.base]]
      BY <2>3 DEF Quotient, Price
    <3>2. Worth(res, p.base) = {res.rates[p.base]} /\ Worth(res, p.quote) = {res.rates[p.quote]}
      BY <2>2, <2>3 DEF Nonzero
    <3>3. res.rates[p.base] \in Nat \ {0} /\ res.rates[p.quote] \in Nat
      BY <1>2, <2>3 DEF Known, Nonzero
    <3>4. res.rates[p.quote] * res.rates[p.base] = res.rates[p.base] * res.rates[p.quote]
      BY <3>3
    <3> QED
      BY <2>1, <3>1, <3>2, <3>3, <3>4 DEF NoPrice
  <2>4. CASE ~ (Known(res, p.quote) /\ Nonzero(res, p.base))
    BY <2>1, <2>2, <2>4 DEF Quotient, Nonzero
  <2> QED
    BY <2>3, <2>4
<1> QED
  BY <1>3, <1>4, <1>5

\* Every price that Get computes from currency rates is the right ratio.
THEOREM FetchPriceIsRatio == Spec => []PriceIsRatio
<1>1. Init => PriceInv
  BY DEF Init, PriceInv
<1>2. PriceInv /\ [Next]_vars => PriceInv'
  <2> SUFFICES ASSUME PriceInv, [Next]_vars PROVE PriceInv'
    OBVIOUS
  <2>1. ASSUME NEW d \in Durations, NEW res \in Responses(pair), Succeed(d, res) PROVE PriceInv'
    BY <2>1 DEF Succeed, Return, PriceInv
  <2>2. CASE UNCHANGED <<pair, response, price>>
    BY <2>2 DEF PriceInv
  <2>3. ASSUME NEW d \in Durations, NEW n \in 0..(2 * MaxInterval),
               FailForGood(d) \/ Backoff(d, n) \/ Stop(d, n)
        PROVE  UNCHANGED <<pair, response, price>>
    BY <2>3 DEF FailForGood, Backoff, Stop, Return
  <2>4. ASSUME NEW d \in Durations, FailForGood(d) PROVE UNCHANGED <<pair, response, price>>
    BY <2>4 DEF FailForGood, Return
  <2>5. Retry \/ Cancelled \/ UNCHANGED vars => UNCHANGED <<pair, response, price>>
    BY DEF Retry, Cancelled, Return, vars
  <2> QED
    BY <2>1, <2>2, <2>3, <2>4, <2>5 DEF Next, Step, Returned
<1>3. PriceInv => PriceIsRatio
  BY CrossRateIsRatio DEF PriceInv, PriceIsRatio, QuotePrice
<1> QED
  BY <1>1, <1>2, <1>3, PTL DEF Spec
============================================================================
