------------------------------ MODULE Startup ------------------------------
(***************************************************************************)
(* The processes of one stack come up: API servers and workers read the    *)
(* same environment, wire themselves (InitAPI, InitDBWorker,               *)
(* InitGRPCRunner) and run.  All that use PostgreSQL migrate it first, at  *)
(* the same time: golang-migrate takes an advisory lock, marks the schema  *)
(* dirty, runs one migration and clears the mark, until none is left.  The *)
(* database may not be up yet, statements fail, processes are killed.      *)
(***************************************************************************)
EXTENDS Naturals, Sequences

CONSTANTS Apis, Workers,   \* processes of cmd/api and of cmd/worker
          Migrations,      \* number of up migrations
          MaxPings,        \* attempts to reach the database (30 in the code)
          MaxRestarts,     \* bound on processes that are started again
          MaxErrors,       \* bound on failed statements of migrations
          MaxKills         \* bound on killed processes

Procs == Apis \cup Workers
NoProc == "nobody"

ASSUME StartupAssumption ==
  /\ Apis \cap Workers = {} /\ NoProc \notin Procs
  /\ Migrations \in Nat \ {0} /\ MaxPings \in Nat \ {0}
  /\ MaxRestarts \in Nat /\ MaxErrors \in Nat /\ MaxKills \in Nat

VARIABLES workerType,        \* WORKER_TYPE of the stack, as loaded
          dbUp,              \* PostgreSQL accepts connections
          version, dirty,    \* the row of schema_migrations
          applied,           \* migrations whose statements took effect
          lock,              \* holder of the advisory lock
          at,                \* per process: where it is, see Phases
          open,              \* per process: clients that are not closed
          pings,             \* per process: failed pings
          restarts, errors, kills

world == <<workerType, dbUp>>
schema == <<version, dirty, applied>>
budgets == <<restarts, errors, kills>>
vars == <<world, schema, lock, at, open, pings, budgets>>

Starting == {"connect", "ping", "lock", "check", "mark", "body", "clear", "redis", "dial", "run"}
Phases == {"down", "serve", "failed", "exit"} \cup Starting
Clients == {"pg", "redis", "grpc"}
Migrating == {"check", "mark", "body", "clear"}

\* getEnv: a variable that is unset or empty takes its default.  Nothing else is
\* validated.
Load(env) == IF env = "unset" THEN "db" ELSE env

TypeOK ==
  /\ workerType \in {"db", "chan", "grpc", "other"}
  /\ dbUp \in BOOLEAN /\ dirty \in BOOLEAN
  /\ version \in 0..Migrations
  /\ applied \in Seq(1..Migrations)
  /\ lock \in Procs \cup {NoProc}
  /\ at \in [Procs -> Phases]
  /\ open \in [Procs -> SUBSET Clients]
  /\ pings \in [Procs -> 0..MaxPings]
  /\ restarts \in 0..MaxRestarts
  /\ errors \in 0..MaxErrors
  /\ kills \in 0..MaxKills

Init ==
  /\ \E env \in {"unset", "db", "chan", "grpc", "other"} : workerType = Load(env)
  /\ dbUp \in BOOLEAN
  /\ version = 0 /\ dirty = FALSE /\ applied = <<>>
  /\ lock = NoProc
  /\ at = [p \in Procs |-> "down"]
  /\ open = [p \in Procs |-> {}]
  /\ pings = [p \in Procs |-> 0]
  /\ restarts = 0 /\ errors = 0 /\ kills = 0

Goto(p, from, to) == at[p] = from /\ at' = [at EXCEPT ![p] = to]
Opened(p, clients) == open' = [open EXCEPT ![p] = @ \cup clients]
Closed(p, clients) == open' = [open EXCEPT ![p] = @ \ clients]
Error == errors < MaxErrors /\ errors' = errors + 1

----------------------------------------------------------------------------
(* main: which injector runs. *)

\* Where a process begins: the API and db workers with ProvideDB, grpc workers,
\* which have no database, with their listener, and the others with an error.
Injector(p) ==
  CASE p \in Apis                            -> "connect"
    [] p \in Workers /\ workerType = "db"    -> "connect"
    [] p \in Workers /\ workerType = "grpc"  -> "run"
    [] OTHER                                 -> "failed"

\* A process starts, for the first time or again.
Start(p) ==
  /\ at[p] \in {"down", "exit"}
  /\ restarts' = restarts + (IF at[p] = "exit" THEN 1 ELSE 0)
  /\ restarts' <= MaxRestarts
  /\ at' = [at EXCEPT ![p] = Injector(p)]
  /\ pings' = [pings EXCEPT ![p] = 0]
  /\ UNCHANGED <<world, schema, lock, open, errors, kills>>

\* log.Fatal after an injector has returned an error: no cleanup to run.
Fatal(p) ==
  /\ Goto(p, "failed", "exit")
  /\ open' = [open EXCEPT ![p] = {}]
  /\ UNCHANGED <<world, schema, lock, pings, budgets>>

----------------------------------------------------------------------------
(* ProvideDB: connect, migrate. *)

\* pg.Connect only parses the URL; the pool connects later.
Connect(p) ==
  /\ Goto(p, "connect", "ping")
  /\ Opened(p, {"pg"})
  /\ UNCHANGED <<world, schema, lock, pings, budgets>>

\* DATABASE_URL is missing or no URL, or the pool sizes are not positive.
ConnectError(p) ==
  /\ Goto(p, "connect", "failed")
  /\ UNCHANGED <<world, schema, lock, open, pings, budgets>>

PingOk(p) ==
  /\ dbUp
  /\ Goto(p, "ping", "lock")
  /\ pings' = [pings EXCEPT ![p] = 0]
  /\ UNCHANGED <<world, schema, lock, open, budgets>>

\* Mutant of PingFail: no attempt is the last one.
PingFailForever(p) ==
  /\ ~ dbUp
  /\ at[p] = "ping"
  /\ pings' = [pings EXCEPT ![p] = 1 - @]
  /\ UNCHANGED <<world, schema, lock, at, open, budgets>>

\* The database does not answer: wait and try again, at most MaxPings times;
\* then RunMigrations fails and ProvideDB closes the pool.
PingFail(p) ==
  LET last == pings[p] + 1 = MaxPings
  IN  /\ ~ dbUp
      /\ Goto(p, "ping", IF last THEN "failed" ELSE "ping")
      /\ pings' = [pings EXCEPT ![p] = @ + 1]
      /\ Closed(p, IF last THEN {"pg"} ELSE {})
      /\ UNCHANGED <<world, schema, lock, budgets>>

\* Mutant of LockSchema: the advisory lock is not taken.
LockSchemaShared(p) ==
  /\ Goto(p, "lock", "check")
  /\ lock' = p
  /\ UNCHANGED <<world, schema, open, pings, budgets>>

LockSchema(p) ==
  /\ lock = NoProc
  /\ Goto(p, "lock", "check")
  /\ lock' = p
  /\ UNCHANGED <<world, schema, open, pings, budgets>>

\* Mutant of ProvideDBFails: the error of RunMigrations is only logged.
ProvideDBGoesOn(p, from) ==
  /\ at[p] \in from
  /\ at' = [at EXCEPT ![p] = "redis"]
  /\ lock' = IF lock = p THEN NoProc ELSE lock
  /\ UNCHANGED open

\* Mutant of ProvideDBFails: the pool is not closed.
ProvideDBLeaks(p, from) ==
  /\ at[p] \in from
  /\ at' = [at EXCEPT ![p] = "failed"]
  /\ lock' = IF lock = p THEN NoProc ELSE lock
  /\ UNCHANGED open

\* m.Up fails: its connection is closed, and the lock with it, then the pool.
ProvideDBFails(p, from) ==
  /\ at[p] \in from
  /\ at' = [at EXCEPT ![p] = "failed"]
  /\ lock' = IF lock = p THEN NoProc ELSE lock
  /\ Closed(p, {"pg"})

\* Another process migrates for longer than the lock timeout (15 s).
LockTimeout(p) ==
  /\ lock \notin {p, NoProc}
  /\ ProvideDBFails(p, {"lock"})
  /\ UNCHANGED <<world, schema, pings, budgets>>

Unlocked(p) ==
  /\ lock' = NoProc
  /\ at' = [at EXCEPT ![p] = "redis"]

\* Mutant of CheckVersion: a dirty schema is taken for a clean one.
CheckVersionOnly(p) ==
  /\ at[p] = "check"
  /\ \/ version = Migrations /\ Unlocked(p)
     \/ version < Migrations /\ Goto(p, "check", "mark") /\ UNCHANGED lock
  /\ UNCHANGED <<world, schema, open, pings, budgets>>

\* The version is clean: nothing to do (ErrNoChange), or the next migration.
CheckVersion(p) ==
  /\ at[p] = "check"
  /\ ~ dirty
  /\ \/ version = Migrations /\ Unlocked(p)
     \/ version < Migrations /\ Goto(p, "check", "mark") /\ UNCHANGED lock
  /\ UNCHANGED <<world, schema, open, pings, budgets>>

\* ErrDirty: a migration has failed before and nobody has repaired it.
FoundDirty(p) ==
  /\ dirty
  /\ ProvideDBFails(p, {"check"})
  /\ UNCHANGED <<world, schema, pings, budgets>>

MarkDirty(p) ==
  /\ Goto(p, "mark", "body")
  /\ version' = version + 1
  /\ dirty' = TRUE
  /\ UNCHANGED <<world, applied, lock, open, pings, budgets>>

\* The statements of a migration are one implicit transaction.
RunBody(p) ==
  /\ Goto(p, "body", "clear")
  /\ applied' = Append(applied, version)
  /\ UNCHANGED <<world, version, dirty, lock, open, pings, budgets>>

ClearDirty(p) ==
  /\ at[p] = "clear"
  /\ dirty' = FALSE
  /\ \/ version = Migrations /\ Unlocked(p)
     \/ version < Migrations /\ Goto(p, "clear", "mark") /\ UNCHANGED lock
  /\ UNCHANGED <<world, version, applied, open, pings, budgets>>

\* What is left of a migration that stops in its statements: all or nothing.
BodyOrNot(p) == applied' \in {applied} \cup (IF at[p] = "body" THEN {Append(applied, version)} ELSE {})

\* A statement fails, those that take the lock and read the version included.
MigrateError(p) ==
  /\ Error
  /\ ProvideDBFails(p, {"lock"} \cup Migrating)
  /\ BodyOrNot(p)
  /\ UNCHANGED <<world, version, dirty, pings, restarts, kills>>

----------------------------------------------------------------------------
(* The rest of the injectors, and the run. *)

\* The Redis client connects when it is used.
ProvideRedisClient(p) ==
  /\ Goto(p, "redis", IF p \in Apis THEN "dial" ELSE "run")
  /\ Opened(p, {"redis"})
  /\ UNCHANGED <<world, schema, lock, pings, budgets>>

\* So does the client of the rate server, which only the grpc mode has.
ProvideGRPCRateClient(p) ==
  /\ Goto(p, "dial", "run")
  /\ Opened(p, IF workerType = "grpc" THEN {"grpc"} ELSE {})
  /\ UNCHANGED <<world, schema, lock, pings, budgets>>

\* Its target is refused: InitAPI cleans up in the reverse order.
DialError(p) ==
  /\ workerType = "grpc"
  /\ Goto(p, "dial", "failed")
  /\ Closed(p, {"redis", "pg"})
  /\ UNCHANGED <<world, schema, lock, pings, budgets>>

\* The listener is open, or the worker polls: the process serves until it dies.
Run(p) ==
  /\ Goto(p, "run", "serve")
  /\ UNCHANGED <<world, schema, lock, open, pings, budgets>>

\* The port is taken, which is fatal, or the process dies of a panic: a negative
\* CHAN_QUEUE_SIZE, a WORKER_POLL_MS that is not positive.
RunError(p) ==
  /\ Goto(p, "run", "exit")
  /\ open' = [open EXCEPT ![p] = {}]
  /\ UNCHANGED <<world, schema, lock, pings, budgets>>

\* Nobody handles signals: any stop is a kill.  PostgreSQL ends its sessions.
Kill(p) ==
  /\ at[p] \in Starting \cup {"serve"}
  /\ kills < MaxKills
  /\ kills' = kills + 1
  /\ at' = [at EXCEPT ![p] = "exit"]
  /\ open' = [open EXCEPT ![p] = {}]
  /\ lock' = IF lock = p THEN NoProc ELSE lock
  /\ BodyOrNot(p)
  /\ UNCHANGED <<world, version, dirty, pings, restarts, errors>>

DatabaseComesUp ==
  /\ ~ dbUp
  /\ dbUp' = TRUE
  /\ UNCHANGED <<workerType, schema, lock, at, open, pings, budgets>>

\* Every process serves, or is not started again.
Settled ==
  /\ \A p \in Procs : at[p] \in {"serve", "exit"}
  /\ UNCHANGED vars

\* What a process does by itself once it was started.
Proceed(p) ==
  \/ Fatal(p) \/ Connect(p) \/ ConnectError(p) \/ PingOk(p) \/ PingFail(p)
  \/ LockSchema(p) \/ LockTimeout(p) \/ CheckVersion(p) \/ FoundDirty(p)
  \/ MarkDirty(p) \/ RunBody(p) \/ ClearDirty(p)
  \/ ProvideRedisClient(p) \/ ProvideGRPCRateClient(p) \/ DialError(p) \/ Run(p) \/ RunError(p)

Next ==
  \/ \E p \in Procs : Start(p) \/ Proceed(p) \/ MigrateError(p) \/ Kill(p)
  \/ DatabaseComesUp \/ Settled

Spec == Init /\ [][Next]_vars

\* A process that runs goes on; nobody has to start it, kill it or bring the
\* database up.
FairSpec == Spec /\ \A p \in Procs : WF_vars(Proceed(p))

----------------------------------------------------------------------------
(* Safety. *)

InOrder(n) == [i \in 1..n |-> i]

\* Each migration takes effect once, in order, whatever processes start at the
\* same time; the version says how many did, up to the one a dirty mark is about.
MigratedOnceInOrder ==
  \/ applied = InOrder(version)
  \/ dirty /\ applied = InOrder(version - 1)

\* A process whose statements need the tables only gets past its injector when
\* all migrations took effect: the tables of QuoteTables are what it finds.
ReadySchema ==
  \A p \in Procs : "pg" \in open[p] /\ at[p] \in {"redis", "dial", "run", "serve"}
                     => applied = InOrder(Migrations)

\* An injector that returns an error has closed what it had opened.
FailureClosesAll == \A p \in Procs : at[p] = "failed" => open[p] = {}

\* A migration was begun and nobody is going to finish it.
Interrupted == dirty /\ \A p \in Procs : at[p] \notin {"body", "clear"}

\* An interrupted migration stays so: no later start repairs it or gets past it.
DirtyBlocksStarts ==
  [][Interrupted =>
       /\ UNCHANGED schema
       /\ \A p \in Procs : at'[p] = "redis" => at[p] = "redis"]_vars

----------------------------------------------------------------------------
(* Liveness. *)

\* Every process that is started serves or exits: none waits for ever for the
\* database, for the lock of another one, or in a loop of migrations.
EveryStartSettles ==
  \A p \in Procs : at[p] \in Starting ~> at[p] \in {"serve", "exit"}
============================================================================
