------------------------------ MODULE QuoteApi ------------------------------
(***************************************************************************)
(* POST /quotes/updates up to its answer: the handler validates the        *)
(* request, reserves its idempotency key in Redis (SET NX with a TTL) and  *)
(* inserts a queued row in PostgreSQL.  The two stores share no            *)
(* transaction, and nothing ever releases a key but its TTL.  Requests run *)
(* concurrently; calls fail before or after they took effect, and the API  *)
(* process dies.  What follows the 202 is the business of DbWorkers and    *)
(* ChanWorkers.                                                            *)
(***************************************************************************)
EXTENDS Naturals, FiniteSets

CONSTANTS Requests,      \* requests that clients send
          Keys,          \* values of X-Idempotency-Key
          MaxFaults,     \* bound on failed calls to Redis and PostgreSQL
          MaxExpiries,   \* bound on the TTLs that run out, per key
          MaxCrashes     \* bound on crashes of the API process

ASSUME ApiAssumption ==
  MaxFaults \in Nat /\ MaxExpiries \in Nat /\ MaxCrashes \in Nat

VARIABLES reserved,      \* keys that exist in Redis
          expired,       \* per key: how often its TTL ran out
          created,       \* requests whose INSERT took effect
          at,            \* per request: the next call of its handler
          key,           \* per request: its key
          epoch,         \* per request: expired[key] when it reserved its key
          code,          \* per request: the status its client received
          faults, crashes

vars == <<reserved, expired, created, at, key, epoch, code, faults, crashes>>

NoKey == "no key"
NoEpoch == MaxExpiries + 1
Epochs == 0..MaxExpiries

TypeOK ==
  /\ reserved \subseteq Keys
  /\ expired \in [Keys -> Epochs]
  /\ created \subseteq Requests
  /\ at \in [Requests -> {"new", "reserve", "insert", "respond", "end"}]
  /\ key \in [Requests -> Keys \cup {NoKey}]
  /\ epoch \in [Requests -> Epochs \cup {NoEpoch}]
  /\ code \in [Requests -> {"none", "202", "400", "409", "500"}]
  /\ faults \in 0..MaxFaults
  /\ crashes \in 0..MaxCrashes

Init ==
  /\ reserved = {}
  /\ expired = [k \in Keys |-> 0]
  /\ created = {}
  /\ at = [r \in Requests |-> "new"]
  /\ key = [r \in Requests |-> NoKey]
  /\ epoch = [r \in Requests |-> NoEpoch]
  /\ code = [r \in Requests |-> "none"]
  /\ faults = 0
  /\ crashes = 0

Goto(r, from, to) == at[r] = from /\ at' = [at EXCEPT ![r] = to]

Answer(r, from, status) ==
  /\ Goto(r, from, "end")
  /\ code' = [code EXCEPT ![r] = status]

Fault == faults < MaxFaults /\ faults' = faults + 1

----------------------------------------------------------------------------

\* Mutant of Reject: the pair is validated after the key has been reserved.
RejectReserved(r) ==
  /\ Answer(r, "new", "400")
  /\ \E k \in Keys : reserved' = reserved \cup {k}
  /\ UNCHANGED <<expired, created, key, epoch, faults, crashes>>

\* The body, the pair or the missing key is refused before any call.
Reject(r) ==
  /\ Answer(r, "new", "400")
  /\ UNCHANGED <<reserved, expired, created, key, epoch, faults, crashes>>

\* A well-formed request with key k reaches the service.
CallService(r, k) ==
  /\ Goto(r, "new", "reserve")
  /\ key' = [key EXCEPT ![r] = k]
  /\ UNCHANGED <<reserved, expired, created, epoch, code, faults, crashes>>

\* Mutant of Reserve: the answer of SET NX is ignored.
ReserveAlways(r) ==
  /\ Goto(r, "reserve", "insert")
  /\ reserved' = reserved \cup {key[r]}
  /\ epoch' = [epoch EXCEPT ![r] = expired[key[r]]]
  /\ UNCHANGED <<expired, created, key, code, faults, crashes>>

\* SET NX finds no key and sets it: the request goes on to the INSERT.
Reserve(r) ==
  /\ Goto(r, "reserve", "insert")
  /\ key[r] \notin reserved
  /\ reserved' = reserved \cup {key[r]}
  /\ epoch' = [epoch EXCEPT ![r] = expired[key[r]]]
  /\ UNCHANGED <<expired, created, key, code, faults, crashes>>

\* Mutant of Conflict: the request waits for the key.
ConflictWaits(r) ==
  /\ key[r] \in reserved
  /\ at[r] = "reserve"
  /\ UNCHANGED vars

\* SET NX finds the key: ErrConflict.
Conflict(r) ==
  /\ key[r] \in reserved
  /\ Answer(r, "reserve", "409")
  /\ UNCHANGED <<reserved, expired, created, key, epoch, faults, crashes>>

\* SET NX took effect and its reply is lost: the Redis client sends it again,
\* and finds the key that it has set itself.
ReserveReplyLost(r) ==
  /\ at[r] = "reserve"
  /\ Fault
  /\ reserved' = reserved \cup {key[r]}
  /\ UNCHANGED <<expired, created, at, key, epoch, code, crashes>>

\* TryReserve gives up with an error.
ReserveError(r) ==
  /\ Fault
  /\ Answer(r, "reserve", "500")
  /\ UNCHANGED <<reserved, expired, created, key, epoch, crashes>>

\* CreateQueued: one INSERT, under a fresh id.
CreateQueued(r) ==
  /\ Goto(r, "insert", "respond")
  /\ created' = created \cup {r}
  /\ UNCHANGED <<reserved, expired, key, epoch, code, faults, crashes>>

\* Mutant of CreateQueuedError: the error is only logged.
CreateQueuedErrorIgnored(r) ==
  /\ Fault
  /\ Goto(r, "insert", "respond")
  /\ UNCHANGED <<reserved, expired, created, key, epoch, code, crashes>>

\* The INSERT fails, or takes effect without its answer coming back, or the
\* client is gone and its context with it.  The key is not released.
CreateQueuedError(r) ==
  /\ Fault
  /\ Answer(r, "insert", "500")
  /\ created' \in {created, created \cup {r}}
  /\ UNCHANGED <<reserved, expired, key, epoch, crashes>>

Accepted(r) ==
  /\ Answer(r, "respond", "202")
  /\ UNCHANGED <<reserved, expired, created, key, epoch, faults, crashes>>

----------------------------------------------------------------------------

\* Redis drops a key whose TTL is over, whatever the request that set it does.
Expire(k) ==
  /\ k \in reserved
  /\ expired[k] < MaxExpiries
  /\ expired' = [expired EXCEPT ![k] = @ + 1]
  /\ reserved' = reserved \ {k}
  /\ UNCHANGED <<created, at, key, epoch, code, faults, crashes>>

\* The API process dies with its handlers; their clients get no answer.
Crash ==
  /\ crashes < MaxCrashes
  /\ crashes' = crashes + 1
  /\ at' = [r \in Requests |-> IF at[r] = "new" THEN "new" ELSE "end"]
  /\ UNCHANGED <<reserved, expired, created, key, epoch, code, faults>>

\* Every request has ended and the server waits for the next one.
Quiet ==
  /\ \A r \in Requests : at[r] = "end"
  /\ UNCHANGED vars

Next ==
  \/ \E r \in Requests :
       \/ Reject(r)
       \/ \E k \in Keys : CallService(r, k)
       \/ Reserve(r) \/ Conflict(r) \/ ReserveReplyLost(r) \/ ReserveError(r)
       \/ CreateQueued(r) \/ CreateQueuedError(r) \/ Accepted(r)
  \/ \E k \in Keys : Expire(k)
  \/ Crash \/ Quiet

Spec == Init /\ [][Next]_vars

----------------------------------------------------------------------------
(* Safety. *)

\* While a key lives in Redis it makes at most one update, however many
\* requests carry it, run at the same time or repeat one that failed.
OneUpdatePerKey ==
  \A r, s \in created : key[r] = key[s] /\ epoch[r] = epoch[s] => r = s

\* The status tells the client what became of its update: 202 only with a row,
\* 400 and 409 only without one; after a 500 either may be.
AnswerTellsEffect ==
  \A r \in Requests : /\ code[r] = "202" => r \in created
                      /\ code[r] \in {"400", "409"} => r \notin created

\* Keys that answer 409 although no update exists and none is being inserted.
Burnt == {k \in reserved : \A r \in Requests :
            key[r] = k => r \notin created /\ at[r] # "insert"}

\* Only a fault burns a key: as long as no handler was killed by a crash, there
\* are no more burnt keys than calls that failed.
BurntBounded == crashes = 0 => Cardinality(Burnt) <= faults

\* A burnt key stays so until its TTL: a client that repeats the request that
\* failed is refused, and no update is ever made for it.
BurntStays == [][\A k \in Burnt : k \in Burnt' \/ k \notin reserved']_vars
============================================================================
