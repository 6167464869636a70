-------------------------- MODULE HttpServerProofs --------------------------
(***************************************************************************)
(* Idempotency of POST /quotes/updates and what its answer tells, for any  *)
(* number of requests, keys, faults, expiries and crashes.  First the      *)
(* calls of QuoteApi by themselves, then the HTTP server, which is shown   *)
(* to let no other calls through.                                          *)
(***************************************************************************)
EXTENDS HttpServer, FiniteSetTheorems, TLAPS

Reserving(r) == epoch[r] # NoEpoch

\* A handler has its key from the service call on, and has reserved it exactly
\* when it is past the reservation.
HandlerOK ==
  \A r \in Requests :
    /\ at[r] \in {"reserve", "insert", "respond"} => key[r] \in Keys
    /\ at[r] \in {"new", "reserve"} => ~ Reserving(r)
    /\ at[r] \in {"insert", "respond"} => Reserving(r)
    /\ r \in created => Reserving(r)
    /\ Reserving(r) => key[r] \in Keys

\* A key that was reserved and has not expired since is in Redis.
ReservationLives ==
  \A r \in Requests : Reserving(r) =>
    /\ epoch[r] <= expired[key[r]]
    /\ epoch[r] = expired[key[r]] => key[r] \in reserved

\* No two requests have reserved a key between two of its expiries.
ReservedOnce ==
  \A r, s \in Requests :
    Reserving(r) /\ key[r] = key[s] /\ epoch[r] = epoch[s] => r = s

ApiInv == TypeOK /\ HandlerOK /\ ReservationLives /\ ReservedOnce

----------------------------------------------------------------------------

\* The epochs are naturals that NoEpoch is none of.
LEMMA EpochFacts ==
  /\ NoEpoch \in Nat /\ NoEpoch \notin Epochs
  /\ \A e \in Epochs : e \in Nat
  BY ApiAssumption DEF NoEpoch, Epochs

\* The invariant holds before any request.
LEMMA ApiInvInit == Init => ApiInv
  BY ApiAssumption, EpochFacts
  DEF Init, ApiInv, TypeOK, HandlerOK, ReservationLives, ReservedOnce, Reserving, Epochs

\* Every step of a handler, of Redis and of a crash keeps the invariant.
LEMMA ApiInvNext == ApiInv /\ [Next]_vars => ApiInv'
<1> SUFFICES ASSUME ApiInv, [Next]_vars PROVE ApiInv'
  OBVIOUS
<1> USE ApiAssumption, EpochFacts
<1>1. ASSUME NEW r \in Requests, Reject(r) PROVE ApiInv'
  BY <1>1 DEF Reject, Answer, Goto, ApiInv, TypeOK, HandlerOK, ReservationLives,
              ReservedOnce, Reserving
<1>2. ASSUME NEW r \in Requests, NEW k \in Keys, CallService(r, k) PROVE ApiInv'
  BY <1>2 DEF CallService, Goto, ApiInv, TypeOK, HandlerOK, ReservationLives,
              ReservedOnce, Reserving
<1>3. ASSUME NEW r \in Requests, Reserve(r) PROVE ApiInv'
  <2> USE DEF Reserve, Goto
  <2>1. key[r] \in Keys /\ expired[key[r]] \in Epochs
    BY <1>3 DEF ApiInv, TypeOK, HandlerOK
  <2>2. TypeOK'
    BY <1>3, <2>1 DEF ApiInv, TypeOK
  <2>3. /\ \A s \in Requests \ {r} : epoch'[s] = epoch[s] /\ at'[s] = at[s]
        /\ epoch'[r] = expired[key[r]] /\ at'[r] = "insert"
        /\ key' = key /\ expired' = expired /\ created' = created
        /\ reserved' = reserved \cup {key[r]}
    BY <1>3 DEF ApiInv, TypeOK
  <2>4. HandlerOK'
    BY <1>3, <2>1, <2>3 DEF ApiInv, HandlerOK, Reserving
  <2>5. ReservationLives'
    BY <2>1, <2>3 DEF ApiInv, ReservationLives, Reserving
  <2>6. ReservedOnce'
    <3> SUFFICES ASSUME NEW s \in Requests \ {r}, key[s] = key[r],
                        epoch'[s] = epoch'[r]
                 PROVE FALSE
      BY <2>3 DEF ApiInv, ReservedOnce, Reserving
    <3>1. Reserving(s) /\ epoch[s] = expired[key[s]]
      BY <2>1, <2>3 DEF Reserving
    <3> QED
      BY <1>3, <3>1 DEF ApiInv, ReservationLives
  <2> QED
    BY <2>2, <2>4, <2>5, <2>6 DEF ApiInv
<1>4. ASSUME NEW r \in Requests, Conflict(r) \/ Accepted(r) PROVE ApiInv'
  BY <1>4 DEF Conflict, Accepted, Answer, Goto, ApiInv, TypeOK, HandlerOK, ReservationLives,
              ReservedOnce, Reserving
<1>5. ASSUME NEW r \in Requests, ReserveReplyLost(r) PROVE ApiInv'
  BY <1>5 DEF ReserveReplyLost, Fault, ApiInv, TypeOK, HandlerOK, ReservationLives,
              ReservedOnce, Reserving
<1>6. ASSUME NEW r \in Requests, ReserveError(r) PROVE ApiInv'
  BY <1>6 DEF ReserveError, Fault, Answer, Goto, ApiInv, TypeOK, HandlerOK,
              ReservationLives, ReservedOnce, Reserving
<1>7. ASSUME NEW r \in Requests, CreateQueued(r) PROVE ApiInv'
  BY <1>7 DEF CreateQueued, Goto, ApiInv, TypeOK, HandlerOK, ReservationLives,
              ReservedOnce, Reserving
<1>8. ASSUME NEW r \in Requests, CreateQueuedError(r) PROVE ApiInv'
  BY <1>8 DEF CreateQueuedError, Fault, Answer, Goto, ApiInv, TypeOK, HandlerOK,
              ReservationLives, ReservedOnce, Reserving
<1>9. ASSUME NEW k \in Keys, Expire(k) PROVE ApiInv'
  <2>1. expired[k] \in Nat /\ expired[k] + 1 \in Epochs
    BY <1>9 DEF Expire, ApiInv, TypeOK, Epochs
  <2>2. TypeOK'
    BY <1>9, <2>1 DEF Expire, ApiInv, TypeOK
  <2>3. HandlerOK' /\ ReservedOnce'
    BY <1>9 DEF Expire, ApiInv, HandlerOK, ReservedOnce, Reserving
  <2>4. ReservationLives'
    BY <1>9, <2>1 DEF Expire, ApiInv, TypeOK, HandlerOK, ReservationLives, Reserving
  <2> QED
    BY <2>2, <2>3, <2>4 DEF ApiInv
<1>10. CASE Crash
  BY <1>10 DEF Crash, ApiInv, TypeOK, HandlerOK, ReservationLives, ReservedOnce, Reserving
<1>11. CASE UNCHANGED vars
  BY <1>11 DEF vars, ApiInv, TypeOK, HandlerOK, ReservationLives, ReservedOnce, Reserving
<1> QED
  BY <1>1, <1>2, <1>3, <1>4, <1>5, <1>6, <1>7, <1>8, <1>9, <1>10, <1>11 DEF Next, Quiet

----------------------------------------------------------------------------

\* The inductive invariant holds in every reachable state.
THEOREM ApiInvariant == Spec => []ApiInv
  BY ApiInvInit, ApiInvNext, PTL DEF Spec

\* RequestQuoteUpdate makes at most one update for a key between two expiries
\* of the key, whatever requests, faults and crashes interleave.
THEOREM ApiOneUpdatePerKey == Spec => []OneUpdatePerKey
<1>1. ApiInv => OneUpdatePerKey
  BY DEF ApiInv, TypeOK, HandlerOK, ReservedOnce, OneUpdatePerKey
<1> QED
  BY <1>1, ApiInvariant, PTL

\* A step never makes an update for a burnt key, and never frees it but by its
\* expiry.
LEMMA BurntStep ==
  ApiInv /\ [Next]_vars => \A k \in Burnt : k \in Burnt' \/ k \notin reserved'
<1> SUFFICES ASSUME ApiInv, [Next]_vars, NEW k \in Burnt, k \in reserved'
             PROVE k \in Burnt'
  OBVIOUS
<1> USE DEF Burnt
<1>1. ASSUME NEW r \in Requests, Reject(r) \/ Conflict(r) \/ Accepted(r) \/ ReserveError(r)
      PROVE k \in Burnt'
  BY <1>1 DEF Reject, Conflict, Accepted, ReserveError, Answer, Goto, ApiInv, TypeOK
<1>2. ASSUME NEW r \in Requests, NEW l \in Keys, CallService(r, l) PROVE k \in Burnt'
  BY <1>2 DEF CallService, Goto, ApiInv, TypeOK, HandlerOK
<1>3. ASSUME NEW r \in Requests, Reserve(r) PROVE k \in Burnt'
  BY <1>3 DEF Reserve, Goto, ApiInv, TypeOK
<1>4. ASSUME NEW r \in Requests, ReserveReplyLost(r) PROVE k \in Burnt'
  BY <1>4 DEF ReserveReplyLost
<1>5. ASSUME NEW r \in Requests, CreateQueued(r) \/ CreateQueuedError(r) PROVE k \in Burnt'
  BY <1>5 DEF CreateQueued, CreateQueuedError, Answer, Goto, ApiInv, TypeOK
<1>6. ASSUME NEW l \in Keys, Expire(l) PROVE k \in Burnt'
  BY <1>6 DEF Expire
<1>7. CASE Crash
  BY <1>7 DEF Crash, ApiInv, TypeOK
<1>8. CASE UNCHANGED vars
  BY <1>8 DEF vars
<1> QED
  BY <1>1, <1>2, <1>3, <1>4, <1>5, <1>6, <1>7, <1>8 DEF Next, Quiet

\* A key whose request failed after the reservation stays refused, and without
\* an update, until Redis drops it.
THEOREM ApiBurntStays == Spec => BurntStays
  BY ApiInvariant, BurntStep, PTL DEF Spec, BurntStays
----------------------------------------------------------------------------
(* Burnt keys, counted. *)

\* Redis holds finitely many keys, and each burnt one has its fault.
BurntInv == IsFiniteSet(reserved) /\ BurntBounded

\* No key is reserved at first.
LEMMA BurntInvInit == Init => BurntInv
<1> SUFFICES ASSUME Init PROVE BurntInv
  OBVIOUS
<1>1. Burnt = {}
  BY DEF Init, Burnt
<1> QED BY <1>1, FS_EmptySet DEF Init, BurntInv, BurntBounded

\* A set that gains at most one element grows by one at most.
LEMMA AtMostOneMore ==
  ASSUME NEW S, NEW T, NEW x, IsFiniteSet(S), T \subseteq S \cup {x}
  PROVE  /\ IsFiniteSet(T) /\ Cardinality(T) \in Nat /\ Cardinality(S) \in Nat
         /\ Cardinality(T) <= Cardinality(S) + 1
         /\ T \subseteq S => Cardinality(T) <= Cardinality(S)
<1>1. /\ IsFiniteSet(S \cup {x}) /\ Cardinality(S) \in Nat
      /\ Cardinality(S \cup {x}) = IF x \in S THEN Cardinality(S) ELSE Cardinality(S) + 1
  BY FS_AddElement, FS_CardinalityType
<1>2. IsFiniteSet(T) /\ Cardinality(T) \in Nat /\ Cardinality(T) <= Cardinality(S \cup {x})
  BY <1>1, FS_Subset, FS_CardinalityType
<1>3. T \subseteq S => Cardinality(T) <= Cardinality(S)
  BY FS_Subset
<1> QED BY <1>1, <1>2, <1>3

\* A step that burns no key but maybe one, and then counts a fault, keeps it.
LEMMA BurntCount ==
  ASSUME ApiInv, BurntInv, NEW k, reserved' \subseteq reserved \cup {k},
         crashes' = crashes,
         \/ Burnt' \subseteq Burnt /\ faults' \in {faults, faults + 1}
         \/ Burnt' \subseteq Burnt \cup {k} /\ faults' = faults + 1
  PROVE  BurntInv'
<1>1. IsFiniteSet(reserved) /\ IsFiniteSet(Burnt)
  BY FS_Subset DEF BurntInv, Burnt
<1>2. IsFiniteSet(reserved')
  BY <1>1, AtMostOneMore
<1>3. /\ Cardinality(Burnt') \in Nat /\ Cardinality(Burnt) \in Nat
      /\ Cardinality(Burnt') <= Cardinality(Burnt) + 1
  BY <1>1, AtMostOneMore
<1>4. Burnt' \subseteq Burnt => Cardinality(Burnt') <= Cardinality(Burnt)
  BY <1>1, AtMostOneMore
<1>5. faults \in Nat
  BY ApiAssumption DEF ApiInv, TypeOK
<1> QED BY <1>2, <1>3, <1>4, <1>5 DEF BurntInv, BurntBounded

\* Only a lost reply of Redis and a failed INSERT burn a key, one each.
LEMMA BurntInvNext ==
  ASSUME ApiInv, BurntInv, [Next]_vars
  PROVE  BurntInv'
<1>1. ASSUME NEW r \in Requests, Reject(r) \/ Conflict(r) \/ Accepted(r) \/ ReserveError(r)
      PROVE  BurntInv'
  <2>1. /\ UNCHANGED <<reserved, crashes, key, created>> /\ faults' \in {faults, faults + 1}
        /\ \A s \in Requests : at[s] = "insert" => at'[s] = "insert"
    BY <1>1 DEF Reject, Conflict, Accepted, ReserveError, Fault, Answer, Goto, ApiInv, TypeOK
  <2>2. Burnt' \subseteq Burnt
    BY <2>1 DEF Burnt
  <2> QED BY <2>1, <2>2, BurntCount
<1>2. ASSUME NEW r \in Requests, NEW l \in Keys, CallService(r, l)
      PROVE  BurntInv'
  <2>1. /\ UNCHANGED <<reserved, crashes, created, faults>> /\ at[r] = "new" /\ r \notin created
        /\ \A s \in Requests \ {r} : at'[s] = at[s] /\ key'[s] = key[s]
    BY <1>2 DEF CallService, Goto, ApiInv, TypeOK, HandlerOK
  <2>2. Burnt' \subseteq Burnt
    BY <2>1 DEF Burnt
  <2> QED BY <2>1, <2>2, BurntCount
<1>3. ASSUME NEW r \in Requests, Reserve(r)
      PROVE  BurntInv'
  <2>1. /\ UNCHANGED <<crashes, created, faults, key>> /\ reserved' = reserved \cup {key[r]}
        /\ at'[r] = "insert" /\ \A s \in Requests \ {r} : at'[s] = at[s]
        /\ at[r] # "insert"
    BY <1>3 DEF Reserve, Goto, ApiInv, TypeOK
  <2>2. Burnt' \subseteq Burnt
    BY <2>1 DEF Burnt
  <2> QED BY <2>1, <2>2, BurntCount
<1>4. ASSUME NEW r \in Requests, ReserveReplyLost(r)
      PROVE  BurntInv'
  <2>1. /\ UNCHANGED <<crashes, created, key, at>> /\ reserved' = reserved \cup {key[r]}
        /\ faults' = faults + 1
    BY <1>4 DEF ReserveReplyLost, Fault
  <2>2. Burnt' \subseteq Burnt \cup {key[r]}
    BY <2>1 DEF Burnt
  <2> QED BY <2>1, <2>2, BurntCount
<1>5. ASSUME NEW r \in Requests, CreateQueued(r)
      PROVE  BurntInv'
  <2>1. /\ UNCHANGED <<reserved, crashes, key, faults>> /\ created' = created \cup {r}
        /\ \A s \in Requests \ {r} : at'[s] = at[s]
    BY <1>5 DEF CreateQueued, Goto, ApiInv, TypeOK
  <2>2. Burnt' \subseteq Burnt
    BY <2>1 DEF Burnt
  <2> QED BY <2>1, <2>2, BurntCount
<1>6. ASSUME NEW r \in Requests, CreateQueuedError(r)
      PROVE  BurntInv'
  <2>1. /\ UNCHANGED <<reserved, crashes, key>> /\ created \subseteq created'
        /\ faults' = faults + 1
        /\ \A s \in Requests \ {r} : at'[s] = at[s]
    BY <1>6 DEF CreateQueuedError, Fault, Answer, Goto, ApiInv, TypeOK
  <2>2. Burnt' \subseteq Burnt \cup {key[r]}
    BY <2>1 DEF Burnt
  <2> QED BY <2>1, <2>2, BurntCount
<1>7. ASSUME NEW k \in Keys, Expire(k)
      PROVE  BurntInv'
  <2>1. UNCHANGED <<crashes, created, key, at, faults>> /\ reserved' = reserved \ {k}
    BY <1>7 DEF Expire
  <2>2. Burnt' \subseteq Burnt
    BY <2>1 DEF Burnt
  <2> QED BY <2>1, <2>2, BurntCount
<1>8. CASE Crash
  <2>1. crashes' # 0 /\ reserved' = reserved
    BY <1>8, ApiAssumption DEF Crash, ApiInv, TypeOK
  <2> QED BY <2>1 DEF BurntInv, BurntBounded
<1>9. CASE UNCHANGED vars
  BY <1>9 DEF vars, BurntInv, BurntBounded, Burnt
<1> QED
  BY <1>1, <1>2, <1>3, <1>4, <1>5, <1>6, <1>7, <1>8, <1>9 DEF Next, Quiet

\* There are no more burnt keys than failed calls, as long as no handler was
\* killed by a crash.
THEOREM ApiBurntBounded == Spec => []BurntBounded
<1>1. ApiInv /\ BurntInv /\ [Next]_vars => BurntInv'
  BY BurntInvNext
<1>2. BurntInv => BurntBounded
  BY DEF BurntInv
<1> QED BY <1>1, <1>2, BurntInvInit, ApiInvariant, PTL DEF Spec
----------------------------------------------------------------------------
(* Answers. *)

\* A handler that has not ended has written no status, and one that is about to
\* answer 202 has its row.
WireOK ==
  \A r \in Requests :
    /\ at[r] = "respond" => r \in created
    /\ at[r] # "end" => code[r] = "none"

HandlerStep(r) ==
  \/ Reject(r) \/ \E k \in Keys : CallService(r, k)
  \/ Reserve(r) \/ Conflict(r) \/ ReserveReplyLost(r) \/ ReserveError(r)
  \/ CreateQueued(r) \/ CreateQueuedError(r) \/ Accepted(r)

\* What a step of a handler does to its request, and to no other.
LEMMA HandlerEffect ==
  ASSUME ApiInv, WireOK, NEW r \in Requests, HandlerStep(r)
  PROVE  /\ at[r] # "end" /\ created \subseteq created' /\ created' \subseteq created \cup {r}
         /\ \A s \in Requests \ {r} : at'[s] = at[s] /\ code'[s] = code[s]
         /\ at'[r] # "end" => code'[r] = code[r] /\ (at'[r] = "respond" => r \in created')
         /\ code'[r] = "202" => r \in created'
         /\ code'[r] \in {"400", "409"} => r \notin created'
<1> USE DEF ApiInv, TypeOK, WireOK
<1>1. CASE Reject(r) \/ Conflict(r)
  BY <1>1 DEF Reject, Conflict, Answer, Goto, HandlerOK
<1>2. CASE \E k \in Keys : CallService(r, k)
  BY <1>2 DEF CallService, Goto
<1>3. CASE Reserve(r) \/ ReserveReplyLost(r)
  BY <1>3 DEF Reserve, ReserveReplyLost, Goto
<1>4. CASE CreateQueued(r)
  BY <1>4 DEF CreateQueued, Goto
<1>5. CASE ReserveError(r) \/ CreateQueuedError(r)
  BY <1>5 DEF ReserveError, CreateQueuedError, Answer, Goto
<1>6. CASE Accepted(r)
  BY <1>6 DEF Accepted, Answer, Goto
<1> QED BY <1>1, <1>2, <1>3, <1>4, <1>5, <1>6 DEF HandlerStep

\* Every step keeps what the answers tell: the 202 comes after the INSERT, and a
\* request that is refused has reserved nothing it could insert under.
LEMMA AnswersNext ==
  ASSUME ApiInv, WireOK, AnswerTellsEffect, [Next]_vars
  PROVE  WireOK' /\ AnswerTellsEffect'
<1> DEFINE Goal == WireOK' /\ AnswerTellsEffect'
<1>1. ASSUME NEW r \in Requests, HandlerStep(r)
      PROVE  Goal
  <2>1. /\ at[r] # "end" /\ created \subseteq created' /\ created' \subseteq created \cup {r}
        /\ \A s \in Requests \ {r} : at'[s] = at[s] /\ code'[s] = code[s]
        /\ at'[r] # "end" => code'[r] = code[r] /\ (at'[r] = "respond" => r \in created')
        /\ code'[r] = "202" => r \in created'
        /\ code'[r] \in {"400", "409"} => r \notin created'
    BY <1>1, HandlerEffect
  <2> QED BY <2>1 DEF WireOK, AnswerTellsEffect
<1>2. ASSUME UNCHANGED <<created, code>>,
             at' = at \/ at' = [r \in Requests |-> IF at[r] = "new" THEN "new" ELSE "end"]
      PROVE  Goal
  <2>1. \A r \in Requests : at'[r] \in {at[r], "end"}
    BY <1>2 DEF ApiInv, TypeOK
  <2> QED BY <1>2, <2>1 DEF WireOK, AnswerTellsEffect
<1>3. ASSUME NEW k \in Keys, Expire(k)
      PROVE  Goal
  BY <1>2, <1>3 DEF Expire
<1>4. Crash \/ UNCHANGED vars => Goal
  BY <1>2 DEF Crash, vars
<1> HIDE DEF Goal
<1>5. Goal
  BY <1>1, <1>3, <1>4 DEF Next, HandlerStep, Quiet
<1> QED BY <1>5 DEF Goal

\* A client that has its 202 has its row, and one that was refused has none.
THEOREM ApiAnswerTellsEffect == Spec => []AnswerTellsEffect
<1>1. Init => WireOK /\ AnswerTellsEffect
  BY DEF Init, WireOK, AnswerTellsEffect
<1>2. ApiInv /\ WireOK /\ AnswerTellsEffect /\ [Next]_vars => WireOK' /\ AnswerTellsEffect'
  BY AnswersNext
<1> QED BY <1>1, <1>2, ApiInvariant, PTL DEF Spec
----------------------------------------------------------------------------
(* The HTTP server. *)

\* A handler that is called gets one of the keys.
LEMMA BoundKey ==
  ASSUME NEW header \in Headers, Bound(header)
  PROVE  header[1] \in Keys
BY DEF Headers, Bound

\* Whatever headers and bodies the requests have, the server makes the calls that
\* QuoteApi allows and no others: a key that reaches Redis is a key.
THEOREM HttpImplementsApi == HttpSpec => Spec
<1>1. ASSUME NEW r \in Requests, NEW header \in Headers, NEW body \in Bodies, Receive(r, header, body)
      PROVE  Next
  BY <1>1, BoundKey DEF Receive, Next
<1>2. ASSUME NEW r \in Requests, Handle(r)
      PROVE  Next
  BY <1>2 DEF Handle, Next
<1>3. (\E k \in Keys : Expire(k)) \/ Crash \/ Quiet => Next
  BY DEF Next
<1>4. [HttpNext]_vars => [Next]_vars
  BY <1>1, <1>2, <1>3 DEF HttpNext
<1> QED BY <1>4, PTL DEF HttpSpec, Spec

\* Type correctness of the server; in particular every key in Redis is one that
\* a client has sent.
THEOREM HttpTypeCorrect == HttpSpec => []TypeOK
<1>1. ApiInv => TypeOK
  BY DEF ApiInv
<1> QED BY <1>1, ApiInvariant, HttpImplementsApi, PTL

\* One update per lifetime of a key, whatever headers and bodies requests have.
THEOREM HttpOneUpdatePerKey == HttpSpec => []OneUpdatePerKey
BY ApiOneUpdatePerKey, HttpImplementsApi, PTL

\* No more burnt keys than faults, until a crash.
THEOREM HttpBurntBounded == HttpSpec => []BurntBounded
BY ApiBurntBounded, HttpImplementsApi, PTL

\* A 202 means a row, a 400 or a 409 none.
THEOREM HttpAnswerTellsEffect == HttpSpec => []AnswerTellsEffect
BY ApiAnswerTellsEffect, HttpImplementsApi, PTL

\* A burnt key stays burnt until Redis drops it, whatever the server does.
THEOREM HttpBurntStays == HttpSpec => BurntStays
BY ApiBurntStays, HttpImplementsApi, PTL
============================================================================
