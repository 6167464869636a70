----------------------------- MODULE RateFetch -----------------------------
(***************************************************************************)
(* One call of ExchangeRatesAPIProvider.Get: DoJSON of httpx repeats the   *)
(* HTTP request with an exponential backoff until it is answered, fails    *)
(* for good, runs out of its total time or of its context; then the rate   *)
(* of the pair is computed from the rates of the response.  Time is in     *)
(* units of the configuration's choice.  A rate is a natural number of     *)
(* units of a currency for one of the response's base, a price a fraction. *)
(***************************************************************************)
EXTENDS Naturals

CONSTANTS InitialInterval, MaxInterval, Total,   \* HTTP_BACKOFF_*
          ClientTimeout,     \* of the http.Client
          Deadlines,         \* of contexts: chan and grpc mode set one, db mode
                             \* does not (NoDeadline)
          Durations,         \* how long an attempt may take
          Values             \* rates

NoDeadline == 0

ASSUME BackoffAssumption ==
  /\ InitialInterval \in Nat \ {0} /\ MaxInterval \in Nat \ {0} /\ Total \in Nat \ {0}
  /\ ClientTimeout \in Nat \ {0} /\ Deadlines \subseteq Nat
  /\ Durations \subseteq 0..ClientTimeout
  /\ Values \subseteq Nat

VARIABLES pair,        \* the pair to fetch
          deadline,    \* of the context
          phase,       \* "attempt", "wait" or "done"
          elapsed,     \* time since DoJSON was called
          interval,    \* the backoff's current interval
          due,         \* when the next attempt starts
          response,    \* the decoded body, or NoResponse
          price        \* the result, NoPrice for an error

vars == <<pair, deadline, phase, elapsed, interval, due, response, price>>

----------------------------------------------------------------------------
(* ExchangeRatesAPIProvider.Get: from a response to the price of a pair. *)

SupportedCurrency == {"USD", "EUR", "MXN"}
ValidPairs == {p \in [base : SupportedCurrency, quote : SupportedCurrency] : p.base # p.quote}

Symbols(p) == {p.base, p.quote}

\* Bodies that report success: rates is a map of some of the requested symbols,
\* and maybe of the pair itself.
Responses(p) ==
  [base : SupportedCurrency,
   rates : UNION {[K -> Values] : K \in SUBSET (Symbols(p) \cup {"pair"})}]
NoResponse == [base |-> "none"]

NoPrice == [num |-> 0, den |-> 0]
Price(n, d) == [num |-> n, den |-> d]

Known(res, c) == c \in DOMAIN res.rates
Nonzero(res, c) == Known(res, c) /\ res.rates[c] # 0

\* The response's base is the base of the pair, its quote currency, or neither.
Direct(p, res) ==
  IF Known(res, p.quote) THEN Price(res.rates[p.quote], 1) ELSE NoPrice

\* Mutant of Inverse: the rate is taken as it is.
NotInverted(p, res) ==
  IF Nonzero(res, p.base) THEN Price(res.rates[p.base], 1) ELSE NoPrice

Inverse(p, res) ==
  IF Nonzero(res, p.base) THEN Price(1, res.rates[p.base]) ELSE NoPrice

Quotient(p, res) ==
  IF Known(res, p.quote) /\ Nonzero(res, p.base)
  THEN Price(res.rates[p.quote], res.rates[p.base]) ELSE NoPrice

CrossRate(p, res) ==
  IF res.base = p.base THEN Direct(p, res)
  ELSE IF res.base = p.quote THEN Inverse(p, res)
  ELSE Quotient(p, res)

\* A rate under the name of the pair is preferred.
QuotePrice(p, res) ==
  IF "pair" \in DOMAIN res.rates THEN Price(res.rates["pair"], 1) ELSE CrossRate(p, res)

----------------------------------------------------------------------------
(* The backoff library: interval +/- 50%, growing by half up to a maximum. *)

Jitter(i) == {n \in 0..(2 * MaxInterval) : 2 * n >= i /\ 2 * n <= 3 * i}
Grown(i) == IF 3 * i >= 2 * MaxInterval THEN MaxInterval ELSE (3 * i) \div 2

\* Mutant of GivesUp: the wait to come is not counted.
GivesUpLate(now, n) == now > Total

\* NextBackOff answers Stop: the next attempt would start after Total.
GivesUp(now, n) == now + n > Total

ContextDone(now) == deadline # NoDeadline /\ now >= deadline

\* An attempt that started now and would take d ends here.
EndOf(d) == IF ContextDone(elapsed + d) THEN deadline ELSE elapsed + d

----------------------------------------------------------------------------
(* DoJSON. *)

Init ==
  /\ pair \in ValidPairs
  /\ deadline \in Deadlines
  /\ phase = "attempt"
  /\ elapsed = 0
  /\ interval = InitialInterval
  /\ due = 0
  /\ response = NoResponse
  /\ price = NoPrice

Return(now) ==
  /\ phase' = "done"
  /\ elapsed' = now
  /\ interval' = InitialInterval
  /\ due' = 0
  /\ UNCHANGED <<pair, deadline>>

\* 200 and a body that decodes and reports success, before the client's timeout
\* and the context's.
Succeed(d, res) ==
  /\ phase = "attempt"
  /\ d < ClientTimeout
  /\ ~ ContextDone(elapsed + d)
  /\ response' = res
  /\ price' = QuotePrice(pair, res)
  /\ Return(elapsed + d)

\* Another status below 500, a body that does not decode, or one that reports an
\* error of the API: not repeated.
FailForGood(d) ==
  /\ phase = "attempt"
  /\ d < ClientTimeout
  /\ ~ ContextDone(elapsed + d)
  /\ Return(elapsed + d)
  /\ UNCHANGED <<response, price>>

\* A status of 500 or more, a network error or a timeout: the backoff stops or
\* says when to try again.
Backoff(d, n) ==
  /\ phase = "attempt"
  /\ n \in Jitter(interval)
  /\ ~ ContextDone(elapsed + d)
  /\ ~ GivesUp(elapsed + d, n)
  /\ phase' = "wait"
  /\ elapsed' = elapsed + d
  /\ interval' = Grown(interval)
  /\ due' = elapsed + d + n
  /\ UNCHANGED <<pair, deadline, response, price>>

Stop(d, n) ==
  /\ phase = "attempt"
  /\ n \in Jitter(interval)
  /\ ContextDone(elapsed + d) \/ GivesUp(elapsed + d, n)
  /\ Return(EndOf(d))
  /\ UNCHANGED <<response, price>>

\* Mutant of Retry: the backoff is reset for every attempt, so that its total
\* time starts over.
RetryResets ==
  /\ phase = "wait"
  /\ deadline # NoDeadline => due <= deadline
  /\ phase' = "attempt"
  /\ elapsed' = IF deadline = NoDeadline THEN 0 ELSE due
  /\ due' = 0
  /\ UNCHANGED <<pair, deadline, interval, response, price>>

\* The timer of the wait fires, or the context is done first.
Retry ==
  /\ phase = "wait"
  /\ deadline # NoDeadline => due <= deadline
  /\ phase' = "attempt"
  /\ elapsed' = due
  /\ due' = 0
  /\ UNCHANGED <<pair, deadline, interval, response, price>>

Cancelled ==
  /\ phase = "wait"
  /\ ContextDone(due)
  /\ Return(deadline)
  /\ UNCHANGED <<response, price>>

\* Get has returned.
Returned == phase = "done" /\ UNCHANGED vars

Step ==
  \/ \E d \in Durations :
       \/ \E res \in Responses(pair) : Succeed(d, res)
       \/ FailForGood(d)
       \/ \E n \in 0..(2 * MaxInterval) : Backoff(d, n) \/ Stop(d, n)
  \/ Retry \/ Cancelled

Next == Step \/ Returned

Spec == Init /\ [][Next]_vars

\* Requests end (the client has a timeout) and timers fire.
FairSpec == Spec /\ WF_vars(Step)

----------------------------------------------------------------------------

TypeOK ==
  /\ pair \in ValidPairs /\ deadline \in Deadlines
  /\ phase \in {"attempt", "wait", "done"}
  /\ elapsed \in Nat /\ interval \in 1..MaxInterval /\ due \in Nat
  /\ response = NoResponse \/ response \in Responses(pair)
  /\ price \in [num : Nat, den : Nat]

\* A fetch is over one attempt after the total backoff time at the latest, and
\* never outlives its context: what the workers rely on to go on.
ReturnsInTime ==
  /\ elapsed <= Total + ClientTimeout
  /\ deadline # NoDeadline => elapsed <= deadline

\* What one unit of the response's base is worth in currency c, if it says so.
Worth(res, c) == IF c = res.base THEN {1} ELSE {res.rates[k] : k \in {c} \cap DOMAIN res.rates}

\* Whatever the base of the response, a price from currency rates is the worth
\* of the quote currency over that of the base currency of the pair, and there
\* is one exactly if both are known and the latter is not zero.
PriceIsRatio ==
  response # NoResponse /\ "pair" \notin DOMAIN response.rates =>
    /\ price # NoPrice <=> /\ Worth(response, pair.quote) # {}
                           /\ Worth(response, pair.base) \ {0} # {}
    /\ price # NoPrice =>
         \A b \in Worth(response, pair.base), q \in Worth(response, pair.quote) :
           price.num * b = price.den * q

\* A fetch returns, however often the provider fails.
FetchReturns == <>(phase = "done")
============================================================================
