# fxrates-service in TLA+

fxrates-service accepts requests to refresh the rate of a currency pair, does
the work in the background and serves the results. This directory holds a TLA+
model of its core: the tables and the SQL statements, the completion of an
update, its three worker modes, the idempotent request path and the HTTP server
around it, the fetch of a rate, and the start of its processes. TLC
checks the models on small instances; TLAPS proves the main results for
instances of any size. Paths below are relative to `src/`.

## 1. The system

| Component | State | Operations | Modelled in |
|---|---|---|---|
| Tables (`internal/infrastructure/pg`) | `quote_updates` (one row per update: queued, processing, done, failed), `quotes` (last quote per pair), `quotes_history` (unique by pair, quoted_at, source) | CreateQueued, GetByID, UpdateStatus, ClaimQueued, Upsert, AppendHistory, GetLast | `QuoteTables` |
| Service (`internal/application/service.go`) | none of its own | RequestQuoteUpdate, CompleteQuoteUpdate, ProcessQueueBatch | `QuoteApi`, `QuoteCompletion`, `DbWorkers` |
| Unit of work (`pg/uow.go`) | the transaction in the context | Do | `QuoteCompletion` |
| db workers (`worker/db_worker.go`) | the batch in hand | tick: claim a batch, complete its jobs in turn | `DbWorkers` |
| chan workers (`worker/chan_worker.go`, `bootstrap/providers.go`) | a buffered channel in the API process | Enqueue, processOne under a 5 s deadline, recovery from a panic | `ChanWorkers` |
| grpc mode (`bootstrap/providers.go`, `grpc/`) | one goroutine per request | RPC to a rate server, then CompleteQuoteUpdate | `GrpcDispatch` |
| Idempotency (`redis/idempotency_store.go`) | keys with a TTL | TryReserve (SET NX) | `QuoteApi` |
| HTTP API (`http/server.go`, `http/router.go`, `http/openapi/gen.go`) | responses in progress | POST /quotes/updates, GET /quotes/updates/{id}, GET /quotes/last; binding of parameters, recovery from panics | `HttpServer`, `QuoteApi`; what the reads return in `QuoteTables`; what follows a 202 in `ChanWorkers`, `GrpcDispatch` |
| Rate provider, HTTP retries (`provider/`, `httpx/`) | none | Get, DoJSON | `RateFetch`; for the workers a fetch answers, fails or panics |
| Start-up (`cmd/`, `bootstrap/`, `config/`, `pg/migrate.go`) | `schema_migrations`, an advisory lock, clients that are open | Load, InitAPI, InitDBWorker, InitGRPCRunner, RunMigrations, Run | `Startup` |
| Access log, health and documentation pages, logging, protobuf code, in-memory test doubles | | | not modelled |

How they interact. A POST reserves its idempotency key in Redis, inserts a
queued row in PostgreSQL, answers 202 and, in chan and grpc mode, hands the
update over within the process. A worker fetches a quote with no transaction
open, then writes history, last quote and status in one transaction, or
records the error of the fetch in a single statement. Clients read the tables.
Workers, handlers and API processes share nothing else. Every process that uses
the tables migrates them when it starts.

What is hard here:

* several workers poll one table; claims must not overlap (`FOR UPDATE SKIP LOCKED`);
* a worker may die, or a statement fail, between any two statements;
* the fetch is outside of the transaction, so commits come in any order of the quotes;
* the channel is bounded and lives in memory; handlers race with timers and workers;
* a deadline may expire at any statement, the one that records it included;
* a panic may leave a transaction open, and its recovery meets the locks of it;
* Redis and PostgreSQL share no transaction; a call may take effect and still fail;
* a worker sees a row before the client that asked for it has an answer, or
  although the client was told of an error;
* all processes of a stack start at once and migrate the same database, which may
  not be up yet; one of them may die inside of a migration.

`PROJECT.json` lists these as hazards, each at its line, with the properties
that cover it.

## 2. The modules

```
QuoteTables            tables and statements, pure operators
  QuoteLifecycle       what every worker mode promises (abstract specification)
  QuoteCompletion      CompleteQuoteUpdate, statement by statement
    DbWorkers          + polling, claims, batches, crashes, restarts
    ChanWorkers        + handlers, channel, deadlines, panics, crash of the API
    GrpcDispatch       + a goroutine per request, RPC timeout, connection pool
RateFetch              one fetch: retries with backoff, then the cross rate
QuoteApi               POST /quotes/updates: Redis, then PostgreSQL
  HttpServer           + binding of parameters, validation
DbWorkers + QuoteApi
  QuoteService         a db mode stack: handlers and workers on one table
Startup                processes that wire themselves and migrate the database
MC...                  instances for TLC (symmetry)

QuoteLifecycleProofs     statements, lifecycle
  QuoteCompletionProofs  CompleteQuoteUpdate implements it (instance of the above)
    DbWorkersProofs      db mode, and the stack of QuoteService
    ChanWorkersProofs    chan mode
    GrpcDispatchProofs   grpc mode
HttpServerProofs         QuoteApi and HttpServer (DbWorkersProofs has an instance)
RateFetchProofs, StartupProofs
```

**QuoteTables.** A table is a value and a statement an operator on it. An
update id also is its place in `ORDER BY requested_at`; a quote is known by the
provider's timestamp; texts are present or null. Each stack has one history
source, so the unique key of the history is (pair, quoted_at). `GetByID`
includes the lateral join and the COALESCE of the query; `GetQuoteUpdate` and
`GetLastQuote` are the answers of the handlers above it. The status `none` of
`NoRow` stands for an update that does not exist.

**QuoteLifecycle.** Request, Claim, Succeed, Fail: an update is finished at most
once, by one step on all tables. Its properties are what a client relies on:
`ReadCoherent`, `LastQuoteInHistory`, `OneHistoryRowPerJob`,
`FinishedReadIsFinal`. The guard `Unfinished` is nowhere in the code:
CompleteQuoteUpdate never looks at the status of its row, and the guard holds
only because every mode hands an update to one worker, once. That is what the
refinement shows.

**QuoteCompletion.** `pc[p]` is the statement process p is about to run: fetch,
fail, begin, history, upsert, status, commit. What the transaction has
inserted in the history is in `staged[p]`; `Commit` publishes all three
statements. Row locks are guards: `HistoryKeyFree` (an INSERT waits for a
transaction that has inserted the same key), `QuoteRowFree`, `JobRowFree`. A
failed statement (`TxError`, `MarkFailedError`) abandons the call: the error is
returned and nobody marks the update. The code writes the pair of the quote it
got, the model the pair of the update: they are equal, since the providers and
the rate server answer with the pair they were asked for
(`provider/exchangeratesapi.go:97`, `grpc/rateserver/server.go:39`). A commit whose answer is lost is the same
state change as `Commit`, since both workers only log the error.

**DbWorkers.** `mode[w]` is the place in the poll loop, `sel[w]` the rows locked
by a claim in progress, `batch[w]` the claimed jobs not reached yet.
`ClaimSelect` and `ClaimCommit` are the two halves of the one claiming
statement, between which other workers skip the locked rows; `ClaimError`
either changes nothing or commits and loses the batch (`rows.Scan`,
`rows.Err`). `StartJob` writes processing once more, as the loop does. `Crash`
may hit a worker at any of its steps and drops locks, open transaction and
batch; `Restart` brings it back with nothing.

**ChanWorkers.** A handler inserts (`Insert`; or `InsertError`, where the row may
be in the table and the client gets a 500), answers 202 (`Accept`), then tries
the channel (`Send`), falls to the timer (`StartTimer`) and gives up (`QueueFull`;
also when the client is gone), writing a 503 that `WriteHeader` ignores because
the 202 is written. `ctx[w]` is the context CompleteQuoteUpdate runs under:
after `Expire` the fetch may still answer, but every statement fails
(`ExpiredStep`). A panic, in the fetch or at any statement, (`Recover`) runs
CompleteQuoteUpdate again under the parent context with a fetch that fails. The
unit of work has no deferred ROLLBACK, so a panic inside of it leaves a
transaction open: `leaked` remembers what it has locked, and `LockedOut` is a
statement that waits for it. Under a deadline such a wait ends (`WaitExpires`);
the recovery has none, and waits for ever if its own transaction had reached the
row of its update (`StuckRecovery`). A panic between the COMMIT and the return is
left out: nothing of the program runs there. That leaked transactions also keep
connections of the pool is left out too. In the other modes nothing recovers a
panic of a worker, so it ends the process and is a `Crash`. `Crash` loses
everything but the tables. The close of the channel on a graceful shutdown is
not modelled: see `Startup`.

**GrpcDispatch.** `Insert`, `InsertError` and `Accept` are those of ChanWorkers on the
pool; then `Dispatch` starts the goroutine of the update, known by its id. `rpc[j]` is
the call: under way, answered (the answer is under way), or none. The rate
server keeps no state, so its crash is an `RpcError` of its calls; it may also
never answer, and then `RpcTimeout` (REQUEST_TIMEOUT_MS) ends the call. All
statements share the pool: `FreeConn` guards a single statement and BEGIN, and
the statements of a transaction (`TxStatement`) use the connection it has. A
timeout of zero would mean no timeout and is excluded by the model.

**RateFetch.** `elapsed` is the time since DoJSON was called. An attempt succeeds,
fails for good (a status below 500 other than 200, a body that does not decode,
an error of the API) or fails for now; then the backoff library (external)
draws a wait of its interval plus or minus half, and DoJSON stops if the next
attempt would start after the total time. The context cuts attempts and waits.
`CrossRate` is the switch of Get on fractions, since floating point rounding is
left out.

**QuoteApi.** Each request is at its next call: reserve, insert, respond. A call
may fail before or after it took effect; the Redis client repeats a SET NX
whose reply was lost (`ReserveReplyLost`). `expired[k]` counts the TTLs of a key
and `epoch[r]` remembers the count at the reservation of r: both only serve to
state `OneUpdatePerKey`. `Reject` is every refusal before the first call.

**HttpServer.** Puts in front of QuoteApi what decides which requests reach the
service, and with which key. A POST arrives with a header that is missing, empty,
repeated or a key (`Bound` is the generated wrapper; it takes exactly one value)
and a body that is no JSON, has no pair, a bad one or a good one (`Valid`): only a
request that passes both is a `CallService`, all others are a `Reject`. A panic in
a call is answered 500 by the `recoverer` middleware, as an error of that call is,
so the error actions stand for it. The GET handlers change nothing; their answers
are the operators `GetQuoteUpdate` and `GetLastQuote` of QuoteTables, over which
the reads of the lifecycle are stated. The access log and its status recorder have
no effect on anything modelled and are left out.

**QuoteService.** DbWorkers with the variables of QuoteApi except `created`, which
is the set of rows of `quote_updates` (the refinement mapping of `ImplementsApi`):
request j makes update j. `Insert` is one step of both components; `InsertError`
is the failure QuoteApi has, with the INSERT done or not; all other steps are of
one component only. Nothing else couples them.

**Startup.** `at[p]` is the place of process p in its injector: connect, ping,
migrate (lock, check, mark, body, clear), redis, dial, run. `open[p]` is the
clients it has opened. golang-migrate is external: it takes an advisory lock,
gives up after 15 s (`LockTimeout`), refuses a dirty schema (`FoundDirty`), and for
each migration sets the version and the dirty mark, runs the file, and clears the
mark. A file is one implicit transaction, so that a process that stops in it
leaves all or nothing (`BodyOrNot`). The lock that the driver takes to create its
own table is merged with that of Up. Migrations are numbers: `applied` is the
order in which they took effect. Both binaries pass `context.Background()` and
handle no signal, so no context is ever cancelled: the graceful paths of
`Server.Run`, `RunServer`, `DbWorker.Start` and the cleanups of the injectors are
never taken by a running process, and a stop is a `Kill`. Values of the
configuration that stop a process (no DATABASE_URL, a pool size that is not
positive, a port that is taken, a negative CHAN_QUEUE_SIZE, a WORKER_POLL_MS that
is not positive) are the actions `ConnectError` and `RunError`.

## 3. What TLC checks

Each run has a `.cfg` of its own name.

| Run | Checks | Bounds |
|---|---|---|
| `db_mode` | `TypeOK`, `ClaimExclusive`, the lifecycle properties, `DoneThenLastQuote`, `OrphansBounded`, `OrphanStays`, `ImplementsLifecycle`, `EveryJobCompletesOrIsOrphaned` | 2 workers, 3 jobs of 1 pair, batch of 2, 2 timestamps, 1 crash, 1 error |
| `service` | `OneResultPerKey`, `ImplementsApi`, `EveryRequestSettles` | 2 requests with 1 key, 2 workers, 1 timestamp, 1 failed call, 1 TTL, 1 crash of the API, 1 crash and 1 database error of the workers |
| `chan_mode` | `TypeOK`, `DeliveredOnce`, `FinishedReadIsFinal`, `DroppedStays`, `ImplementsLifecycle`, `EveryJobCompletesOrIsDropped` | 2 goroutines, 3 jobs of 1 pair, channel of 1, 2 timestamps, 1 deadline, 1 panic, 1 crash, 1 error |
| `grpc_mode` | `TypeOK`, `OwnUpdate`, `ImplementsLifecycle`, `EveryJobCompletesOrIsLost` | 3 goroutines on 2 connections, 2 pairs, 1 crash, 1 error, a rate server that need not answer |
| `rate_fetch` | `ReturnsInTime`, `PriceIsRatio`, `FetchReturns` | the default backoff in units of 100 ms (2, 10, 30, client timeout 40), without a context (db mode) and with contexts of 30 (grpc mode) and 50 (chan mode); attempts of 0, 7 or 40; rates 0, 2, 3 |
| `http_api` | `TypeOK`, `OneUpdatePerKey`, `BurntBounded`, `BurntStays`, `AnswerTellsEffect` | 3 POSTs, 2 keys, every header and body, 2 failed calls, 1 TTL per key, 1 crash |
| `startup` | `TypeOK`, `MigratedOnceInOrder`, `ReadySchema`, `FailureClosesAll`, `DirtyBlocksStarts`, `EveryStartSettles` | 1 API, 2 workers, every WORKER_TYPE, 3 migrations, 2 pings, 1 restart, 1 error, 1 kill |

Two workers and a batch of two out of three jobs are the least with which
claims race, a batch has a rest to lose and a second poll follows; two
timestamps let quotes be equal, older and newer; a channel of one is full after
one send, and the third job finds it so while a worker is busy; three
goroutines on two connections are the least that contend. Rates include zero
and two that differ, so that an inversion or a swap shows. One pair makes all
transactions of `db_mode` and `chan_mode` contend for one row of `quotes`;
`grpc_mode` has two pairs and the proofs any number. The reads of chan and grpc
mode are coherent because the lifecycle they implement is
(`ChanReads`, `GrpcReads`), so only what a wrong delivery could break is checked
again. Three POSTs are the least with which a key is used, refused and used
again after its TTL. One panic is enough for a transaction that stays open, a
recovery that waits for its own lock, and another goroutine that waits for it until
its deadline. In
`service`, two requests of one key are a request and its repetition. In
`startup`, three migrations make one that is first, middle and last, and three
processes one that migrates, one that waits and one that comes later. One crash and
one error each, at any step and together, exercise every error path; more of
them only repeat it, and the proofs cover any number. Deadlock is checked in
all runs: an idle system polls (`PollEmpty`) or waits (`Idle`, `Quiet`,
`Settled`), and a fetch that is over has returned (`Returned`).

Fairness. `FairSpec` asks that each worker that can take a step eventually does:
the ticker fires, statements return, and a fetch returns because the HTTP client
has a 4 s timeout and the backoff an overall limit (3 s by default). Restarts
are fair as the process supervisor's job. In chan mode handlers are fair too:
the runtime schedules goroutines and timers fire. Requests, faults, crashes,
deadlines, panics and the provider's clock are never forced. In grpc mode the
API process is fair, its RPC timers included, and nothing is assumed of the
rate server. In `service` the handlers and the workers are fair, each by itself,
and requests are not. In `startup` a process that was started goes on, because
pings, lock and statements return, and nobody has to start it, to kill it or to
bring the database up. That a fetch returns, which the worker modes assume, is what
`rate_fetch` shows; it also shows that with the defaults it may take 7 s, more
than the 5 s a chan worker has and the 3 s of an RPC: a provider that is slow
meets the deadlines of section 2 and not its own.

Runs that refute what the documents say:

| Run | Claim | What happens |
|---|---|---|
| `db_stale` | `quotes` holds the latest quote | the upsert is unconditional: a worker that commits late overwrites a newer quote |
| `db_no_price` | every result is in the history, a done update has a price | ON CONFLICT DO NOTHING drops the row of an update that got the same quote as another |
| `chan_deadline` | provider failures are surfaced as job errors | a fetch that fails at the deadline records its failure under the expired context, which fails too |
| `grpc_processing` | in all worker modes an update is marked as processing before its quote is fetched | only the db mode has this step, in its claim; the other two call CompleteQuoteUpdate, which writes done or failed and nothing else (the run is of the grpc mode; `ChanWorkers` violates `MarkedProcessing` with its first `Receive`) |
| `chan_backpressure` | a full channel pushes back | the 503 is written after the 202 and never sent |

Divergences that have no run of this kind:

* `README.md:182` and `docs/DESIGN_DECISIONS.md:114` say that a restart loses no
  job in db mode, but the updates claimed by a worker that crashes stay in
  processing: ClaimQueued only selects queued rows. The passing run `db_mode` shows
  the consequence, and `DbOrphanStays` proves it: an orphan is never taken again.
* `docs/DESIGN_DECISIONS.md` says a worker marks every job done or failed, but
  after an error of the transaction nobody marks it.
* It says (line 16) that the configuration is loaded and validated. Nothing is
  validated: an API with an unknown WORKER_TYPE accepts updates that nobody
  completes, and the fallbacks of `DbWorker.Start` for a poll interval or a batch
  limit that is not positive read the same value again.
* It says (line 37) that the wiring manages cleanup lifecycles, and the cleanups
  exist, but the binaries never run them.
* The access log of a POST whose channel was full says 503 (the recorder keeps the
  last status) where the client got 202, and a request that panics has no line in
  it, since `recoverer` is outside of `accessLog`.
* `/readyz` always answers READY, since only tests install a check.
* An id that is no UUID is answered with 500, though a client's mistake; the 503
  of a dispatch that failed is not in `api/openapi.yaml`.

Each property of a passing run has a mutant in `PROJECT.json`: a definition
changed the way a plausible bug would (no lock on the claim, a statement on the
pool instead of the transaction, a loop that stops early, a message sent twice,
an ignored SET NX, a migration without its lock ...), under which TLC finds the
property violated.

## 4. What is proved

With TLAPS, for any sets of jobs, pairs, workers, requests and keys and any
bounds, every invariant and every action property that the passing runs check,
and every refinement. The only assumptions are those named in the modules:
job ids are positive naturals and bounds are naturals (`JobsAssumption`,
`ClockAssumption`, `DbErrorsAssumption`, `BatchAssumption`, `ChanAssumption`,
`GrpcAssumption`, `ApiAssumption`, `ServiceAssumption`); a batch has room for a
job and the channel for a message; in grpc mode the goroutines are the updates and
the pool has a connection; intervals and the
total time of the backoff are positive (`BackoffAssumption`); no process has the
name that means nobody, and there is a migration and a ping
(`StartupAssumption`). TLC evaluates them on every run.

The argument has three layers. The lifecycle has the properties clients rely on;
CompleteQuoteUpdate implements the lifecycle as long as no two processes have the
same update; each worker mode sees to that in its own way. A mode thus only has to
be shown to hand out every update once, and inherits the rest.

* `QuoteLifecycleProofs`: what the statements return and preserve, the invariant
  of the lifecycle, and from it `ReadCoherent` and `FinishedReadIsFinal`. Finality
  needs that only done updates have history rows: then a new row never joins a
  finished update. `DoneQuoted` (the pair of a done update has a last quote) is
  part of the invariant because nothing else says that a row of `quotes` stays.
* `QuoteCompletionProofs`: `CompletionImplementsLifecycle`. Each step of
  CompleteQuoteUpdate is a Succeed, a Fail or a stutter. The invariant
  `CompletionInv` has two parts that are not obvious: `JobsOpen` (a process works
  on an unfinished update, alone) stands in for the guard the code does not have,
  and `StagedOK` says that what a transaction has staged is still what its INSERT
  would do at COMMIT, which is true because other transactions wait for the key.
  `LifecycleReads` and `LifecycleFinal` carry the properties of the lifecycle over
  to whatever implements it.
* `DbWorkersProofs`: `DbInv` adds `Ownership`: locked rows are queued, claimed
  ones processing, each with one worker, and a job being completed is in no
  batch. It yields `DbTypeCorrect`, `DbClaimExclusive`, `DbOrphanStays` and `DbMarkedProcessing`
  (what the runs refute of the other modes is true of this one),
  gives CompletionInv what it needs, and so `DbImplementsLifecycle`, from which
  the reads follow, `DbDoneThenLastQuote` among them. `DbOrphansBounded` counts:
  `ORDER BY ... LIMIT k` returns at most k rows (`OldestBounded`: each row it
  returns has a different number of older ones, less than k), so that no worker
  has more than a batch in its hands (`BatchesInv`), and every fault adds at most
  what one worker had while no other step adds an orphan. The table need not be
  bounded, only finite at any time, which is part of the invariant.
* The stack, in the same module: every step of `QuoteService` is one of the db
  mode (`ServiceIsDbMode`), and one of the API or none of it
  (`ServiceImplementsApi`), since workers neither make nor remove a row.
  `ServiceOneResultPerKey` then is the theorem about the API under the refinement
  mapping.
* `ChanWorkersProofs`: in `ChanInv`, `DeliveredOnce` (a message is in one place:
  its handler, the channel, one goroutine) plays the part of `Ownership`. It is
  inductive together with `RowsFollowHandlers`: an update whose message was not
  received yet is still queued, so that the goroutine that receives it finds it
  unfinished. Panics need no more than that, since the second CompleteQuoteUpdate
  has the update of the first (`RecoverEffect`) and a transaction that is left open
  never publishes anything. `ChanImplementsLifecycle`, the
  reads and `ChanDroppedStays` follow.
* `GrpcDispatchProofs`: in `GrpcInv` it is `OwnUpdate` (goroutine j works on
  update j, which is unfinished) with `GoroutinesOK`: an update waits for its dispatch
  in queued and without a goroutine, and an answer under way is a quote.
  `GrpcImplementsLifecycle` and the reads follow.
* `HttpServerProofs`: first the calls of QuoteApi: `ApiOneUpdatePerKey`,
  `ApiBurntStays` and `ApiBurntBounded`. The invariant: a reservation that has not
  expired is still in Redis (`ReservationLives`), and no two requests hold
  reservations of one key from the same epoch (`ReservedOnce`); for the bound, that
  Redis holds finitely many keys. `ApiAnswerTellsEffect` needs where each handler
  is, too. The server in front of these calls implements them
  (`HttpImplementsApi`: a header that is bound is a key), so that all of it carries
  over to `HttpSpec`.
* `RateFetchProofs`: `FetchReturnsInTime`, since attempts start and waits end
  within the total time (`TimeInv`), and `FetchPriceIsRatio`, from the lemma that
  the three cases of the switch agree with one ratio.
* `StartupProofs`: `StartupMigratedOnceInOrder`, `StartupReadySchema`,
  `StartupFailureClosesAll`, `StartupDirtyBlocksStarts` and type correctness. The
  invariant `StartupInv`: exactly the process that migrates holds the lock
  (`LockHeld`); the schema is complete up to its version, or dirty and one
  migration short of it (`SchemaOK`, with `MigrationOK` for the holder's place in
  the migration); past ProvideDB it is complete and clean, which is stable
  because nobody marks it again (`ReadyOK`); and each phase has opened what the
  program has up to there (`ClientsOK`).

Only model-checked: the liveness properties (`EveryJobCompletesOrIsOrphaned`,
`EveryRequestSettles`, `EveryJobCompletesOrIsDropped`, `EveryJobCompletesOrIsLost`,
`FetchReturns`, `EveryStartSettles`), which need fairness and ENABLED and are
beyond the installed provers.

## 5. What is left

1. Bounds for the updates that the chan and grpc modes lose, as `OrphansBounded`
   is for the db mode: dropped updates by full channels, crashes, deadlines and
   errors; lost ones by crashes and errors.
2. The safety half of the liveness arguments: steps that measure progress (a batch
   that only shrinks, a message that only moves forward) as action properties.

Not modelled, and not planned: rounding of prices (a quote is its timestamp, a
price a fraction) and the mapping of rows to JSON; request and trace ids, which
only go to headers and log lines; the access log, health and documentation pages; graceful shutdown, which no binary can reach
(`Startup` above); the syntax of a pair; the fake provider; the in-memory
repositories of `http/fakes.go`, which only tests use; the logger; types and
protobuf code that are generated.
