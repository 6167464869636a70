---------------------------- MODULE QuoteService ----------------------------
(***************************************************************************)
(* A db mode stack from end to end: the handlers of QuoteApi reserve keys  *)
(* in Redis and insert rows in the table that the workers of DbWorkers     *)
(* poll.  Request j makes update j, if any; the two components meet in the *)
(* rows of quote_updates, and in nothing else: a worker may finish an      *)
(* update before its client has the 202, or when it was told of an error.  *)
(***************************************************************************)
EXTENDS DbWorkers

CONSTANTS Keys, MaxFaults,          \* as in QuoteApi
          MaxTtls, MaxApiCrashes    \* its MaxExpiries and MaxCrashes

ASSUME ServiceAssumption ==
  MaxFaults \in Nat /\ MaxTtls \in Nat /\ MaxApiCrashes \in Nat

VARIABLES reserved, expired, at, key, epoch, code, faults, apiCrashes

api == <<reserved, expired, at, key, epoch, code, faults, apiCrashes>>
serviceVars == <<vars, api>>

\* The requests whose INSERT took effect are the rows of the table.
Created == {j \in Jobs : updates[j] # NoRow}

Api == INSTANCE QuoteApi WITH
         Requests <- Jobs, Keys <- Keys, MaxFaults <- MaxFaults,
         MaxExpiries <- MaxTtls, MaxCrashes <- MaxApiCrashes,
         reserved <- reserved, expired <- expired, created <- Created,
         at <- at, key <- key, epoch <- epoch, code <- code,
         faults <- faults, crashes <- apiCrashes

ServiceInit == Init /\ Api!Init

\* Steps of a handler that leave PostgreSQL alone.
Calls(j) ==
  \/ \E k \in Keys : Api!CallService(j, k)
  \/ Api!Reserve(j) \/ Api!Conflict(j) \/ Api!Accepted(j)

Refusals(j) == Api!Reject(j) \/ Api!ReserveReplyLost(j) \/ Api!ReserveError(j)

Handler(j) ==
  /\ UNCHANGED vars
  /\ Calls(j) \/ Refusals(j)

\* Mutant of Insert: the row is inserted before the key is reserved.
InsertFirst(j) ==
  \/ \E p \in Pairs : CreateQueued(j, p) /\ at[j] = "reserve" /\ UNCHANGED api
  \/ UNCHANGED vars /\ Api!CreateQueued(j)

\* The INSERT, seen by the workers as soon as it commits.
Insert(j) == \E p \in Pairs : CreateQueued(j, p) /\ Api!CreateQueued(j)

InsertError(j) ==
  /\ UNCHANGED vars \/ \E p \in Pairs : CreateQueued(j, p)
  /\ Api!CreateQueuedError(j)

\* A key expires or the API process dies; the workers go on.
ApiEvent ==
  /\ UNCHANGED vars
  /\ Api!Crash \/ \E k \in Keys : Api!Expire(k)

\* The workers, whose steps the API knows nothing of.
Background == WorkerNext /\ UNCHANGED api

ServiceNext ==
  \/ \E j \in Jobs : Handler(j) \/ Insert(j) \/ InsertError(j)
  \/ ApiEvent \/ Background

ServiceSpec == ServiceInit /\ [][ServiceNext]_serviceVars

\* Handlers that were called and workers go on, as in the components.
HandlerStep(j) ==
  \/ UNCHANGED vars /\ (Api!Reserve(j) \/ Api!Conflict(j) \/ Api!Accepted(j))
  \/ Insert(j)

ServiceFairSpec ==
  /\ ServiceSpec
  /\ \A j \in Jobs : WF_serviceVars(HandlerStep(j))
  /\ \A w \in Workers : WF_serviceVars(WorkerStep(w) /\ UNCHANGED api)

----------------------------------------------------------------------------
(* Safety. *)

\* The stack is still what QuoteApi says of one API: however fast the workers
\* are, they neither make nor remove an update.
ImplementsApi == Api!Spec

\* Idempotency reaches the results: however requests are repeated and keys
\* refused, workers never finish two updates for one lifetime of a key.
OneResultPerKey ==
  \A i, j \in Jobs :
    /\ {updates[i].status, updates[j].status} \subseteq Terminal
    /\ key[i] = key[j] /\ epoch[i] = epoch[j]
    => i = j

----------------------------------------------------------------------------
(* Liveness. *)

\* Every request that is received comes to an end, and so does its update: it has
\* none, or it is done, failed or orphaned by a fault.
EveryRequestSettles ==
  \A j \in Jobs : at[j] # "new" ~>
    at[j] = "end" /\ (j \notin Created \/ updates[j].status \in Terminal \/ j \in Orphans)
============================================================================
