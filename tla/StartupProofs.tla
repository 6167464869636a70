--------------------------- MODULE StartupProofs ---------------------------
(***************************************************************************)
(* Theorems about Startup, for any number of processes, migrations, pings, *)
(* errors and kills.                                                       *)
(***************************************************************************)
EXTENDS Startup, SequenceTheorems, TLAPS

----------------------------------------------------------------------------
(* The inductive invariant. *)

\* The advisory lock is held by the process that migrates, and by no other.
LockHeld == \A p \in Procs : at[p] \in Migrating <=> lock = p

\* A clean schema is complete up to its version; only a migration in progress,
\* or one that was interrupted, makes it dirty.
SchemaOK ==
  /\ MigratedOnceInOrder
  /\ ~ dirty => applied = InOrder(version)
  /\ dirty => version > 0

\* What the process that migrates knows of the schema, step by step.
MigrationOK(p) ==
  /\ at[p] = "mark" => ~ dirty /\ version < Migrations
  /\ at[p] = "body" => dirty /\ applied = InOrder(version - 1)
  /\ at[p] = "clear" => dirty /\ applied = InOrder(version)

\* Past ProvideDB the schema is complete and clean, and stays so.
ReadyOK(p) ==
  "pg" \in open[p] /\ at[p] \in {"redis", "dial", "run", "serve"}
    => version = Migrations /\ ~ dirty

\* What each phase has opened.
ClientsOK(p) ==
  /\ at[p] \in {"down", "failed", "exit", "connect"} => open[p] = {}
  /\ at[p] \in {"ping", "lock", "redis"} \cup Migrating => open[p] = {"pg"}
  /\ at[p] = "dial" => open[p] = {"pg", "redis"}

PingsOK(p) ==
  /\ at[p] = "connect" => pings[p] = 0
  /\ at[p] = "ping" => pings[p] < MaxPings

StartupInv ==
  /\ TypeOK
  /\ LockHeld
  /\ SchemaOK
  /\ \A p \in Procs : MigrationOK(p) /\ ReadyOK(p) /\ ClientsOK(p) /\ PingsOK(p)

----------------------------------------------------------------------------

\* One more migration in order.
LEMMA InOrderAppend ==
  ASSUME NEW n \in Nat
  PROVE  /\ InOrder(n) \in Seq(Nat) /\ Len(InOrder(n)) = n
         /\ Append(InOrder(n), n + 1) = InOrder(n + 1)
  BY DEF InOrder

\* No migration yet.
LEMMA InOrderZero == InOrder(0) = <<>>
  <1>1. InOrder(0) \in Seq(Nat) /\ Len(InOrder(0)) = 0
    BY InOrderAppend
  <1> QED BY <1>1, EmptySeq

\* The migrations of a version are migrations.
LEMMA InOrderType ==
  ASSUME NEW n \in 0..Migrations
  PROVE  InOrder(n) \in Seq(1..Migrations)
  BY StartupAssumption DEF InOrder

\* It holds before any process has started.
LEMMA InitInv == Init => StartupInv
  <1> SUFFICES ASSUME Init PROVE StartupInv
    OBVIOUS
  <1>1. TypeOK
    <2>1. workerType \in {"db", "chan", "grpc", "other"}
      BY DEF Init, Load
    <2>2. applied = <<>> /\ applied \in Seq(1..Migrations)
      BY EmptySeq DEF Init
    <2>3. at \in [Procs -> Phases] /\ lock \in Procs \cup {NoProc}
      BY DEF Init, Phases
    <2>4. open \in [Procs -> SUBSET Clients]
      BY DEF Init
    <2>5. pings \in [Procs -> 0..MaxPings] /\ version \in 0..Migrations
      BY StartupAssumption DEF Init
    <2>6. restarts \in 0..MaxRestarts /\ errors \in 0..MaxErrors /\ kills \in 0..MaxKills
      BY StartupAssumption DEF Init
    <2> QED BY <2>1, <2>2, <2>3, <2>4, <2>5, <2>6 DEF Init, TypeOK
  <1>2. LockHeld
    BY StartupAssumption DEF Init, LockHeld, Migrating
  <1>3. SchemaOK
    BY InOrderZero DEF Init, SchemaOK, MigratedOnceInOrder
  <1>4. ASSUME NEW p \in Procs
        PROVE  MigrationOK(p) /\ ReadyOK(p) /\ ClientsOK(p) /\ PingsOK(p)
    BY StartupAssumption DEF Init, MigrationOK, ReadyOK, ClientsOK, PingsOK, Migrating
  <1> QED BY <1>1, <1>2, <1>3, <1>4 DEF StartupInv
----------------------------------------------------------------------------
(* One lemma per part of the invariant. *)

\* Opening and closing keep the type of open.
LEMMA OpenType ==
  ASSUME TypeOK, NEW p \in Procs, NEW clients,
         \/ Opened(p, clients) /\ clients \subseteq Clients
         \/ Closed(p, clients)
         \/ open' = [open EXCEPT ![p] = {}]
         \/ open' = open
  PROVE  open' \in [Procs -> SUBSET Clients]
  BY DEF TypeOK, Opened, Closed

\* Types: a ping that fails is not the last one yet, and migrations are appended
\* in order.
LEMMA TypeStep == StartupInv /\ [Next]_vars => TypeOK'
  <1> SUFFICES ASSUME StartupInv, [Next]_vars PROVE TypeOK'
    OBVIOUS
  <1> USE StartupAssumption DEF world, schema, budgets, Goto, Error
  <1>0. TypeOK /\ \A q \in Procs : PingsOK(q) /\ MigrationOK(q)
    BY DEF StartupInv
  <1>1. ASSUME NEW p \in Procs, Start(p) PROVE TypeOK'
    BY <1>0, <1>1 DEF TypeOK, Start, Injector, Phases, Starting
  <1>2. ASSUME NEW p \in Procs, Fatal(p) \/ RunError(p) PROVE TypeOK'
    BY <1>0, <1>2 DEF TypeOK, Fatal, RunError, Phases
  <1>3. ASSUME NEW p \in Procs, Connect(p) \/ ConnectError(p) PROVE TypeOK'
    <2>1. open' \in [Procs -> SUBSET Clients]
      BY <1>0, <1>3, OpenType DEF Connect, ConnectError, Clients
    <2> QED BY <1>0, <1>3, <2>1 DEF TypeOK, Connect, ConnectError, Phases, Starting
  <1>4. ASSUME NEW p \in Procs, PingOk(p) \/ PingFail(p) PROVE TypeOK'
    <2>1. open' \in [Procs -> SUBSET Clients]
      BY <1>0, <1>4, OpenType DEF PingOk, PingFail
    <2>2. at' \in [Procs -> Phases]
      BY <1>0, <1>4 DEF TypeOK, PingOk, PingFail, Phases, Starting
    <2>3. pings' \in [Procs -> 0..MaxPings]
      <3>1. pings \in [Procs -> 0..MaxPings] /\ pings[p] \in Nat /\ MaxPings \in Nat
        BY <1>0 DEF TypeOK
      <3>2. CASE PingOk(p)
        BY <3>1, <3>2 DEF PingOk
      <3>3. CASE PingFail(p)
        <4>1. pings[p] + 1 \in 0..MaxPings
          BY <1>0, <3>1, <3>3 DEF PingFail, PingsOK
        <4>2. pings' = [pings EXCEPT ![p] = pings[p] + 1]
          BY <3>3 DEF PingFail
        <4> QED BY <3>1, <4>1, <4>2
      <3> QED BY <1>4, <3>2, <3>3
    <2> QED BY <1>0, <1>4, <2>1, <2>2, <2>3 DEF TypeOK, PingOk, PingFail
  <1>5. ASSUME NEW p \in Procs, NEW from, ProvideDBFails(p, from)
        PROVE  /\ at' \in [Procs -> Phases] /\ lock' \in Procs \cup {NoProc}
               /\ open' \in [Procs -> SUBSET Clients]
    <2>1. open' \in [Procs -> SUBSET Clients]
      BY <1>0, <1>5, OpenType DEF ProvideDBFails
    <2> QED BY <1>0, <1>5, <2>1 DEF TypeOK, ProvideDBFails, Phases
  <1>6. ASSUME NEW p \in Procs, LockSchema(p) \/ LockTimeout(p) \/ FoundDirty(p) PROVE TypeOK'
    BY <1>0, <1>5, <1>6 DEF TypeOK, LockSchema, LockTimeout, FoundDirty, Phases, Starting
  <1>7. ASSUME NEW p \in Procs, CheckVersion(p) \/ ClearDirty(p) PROVE TypeOK'
    BY <1>0, <1>7 DEF TypeOK, CheckVersion, ClearDirty, Unlocked, Phases, Starting
  <1>8. ASSUME NEW p \in Procs, MarkDirty(p) PROVE TypeOK'
    BY <1>0, <1>8 DEF TypeOK, MarkDirty, MigrationOK, Phases, Starting
  <1>9. ASSUME NEW p \in Procs, at[p] = "body" PROVE Append(applied, version) \in Seq(1..Migrations)
    BY <1>0, <1>9 DEF TypeOK, StartupInv, SchemaOK, MigrationOK
  <1>10. ASSUME NEW p \in Procs, RunBody(p) PROVE TypeOK'
    BY <1>0, <1>9, <1>10 DEF TypeOK, RunBody, Phases, Starting
  <1>11. ASSUME NEW p \in Procs, MigrateError(p) PROVE TypeOK'
    <2>1. applied' \in Seq(1..Migrations)
      BY <1>0, <1>9, <1>11 DEF TypeOK, MigrateError, BodyOrNot
    <2> QED BY <1>0, <1>5, <1>11, <2>1 DEF TypeOK, MigrateError
  <1>12. ASSUME NEW p \in Procs, ProvideRedisClient(p) \/ ProvideGRPCRateClient(p) PROVE TypeOK'
    <2>1. open' \in [Procs -> SUBSET Clients]
      BY <1>0, <1>12, OpenType DEF ProvideRedisClient, ProvideGRPCRateClient, Clients
    <2> QED BY <1>0, <1>12, <2>1 DEF TypeOK, ProvideRedisClient, ProvideGRPCRateClient, Phases, Starting
  <1>13. ASSUME NEW p \in Procs, DialError(p) \/ Run(p) PROVE TypeOK'
    <2>1. open' \in [Procs -> SUBSET Clients]
      BY <1>0, <1>13, OpenType DEF DialError, Run
    <2> QED BY <1>0, <1>13, <2>1 DEF TypeOK, DialError, Run, Phases
  <1>14. ASSUME NEW p \in Procs, Kill(p) PROVE TypeOK'
    <2>1. applied' \in Seq(1..Migrations)
      BY <1>0, <1>9, <1>14 DEF TypeOK, Kill, BodyOrNot
    <2>2. open' \in [Procs -> SUBSET Clients]
      BY <1>0, <1>14, OpenType DEF Kill
    <2> QED BY <1>0, <1>14, <2>1, <2>2 DEF TypeOK, Kill, Phases
  <1>15. CASE DatabaseComesUp
    BY <1>0, <1>15 DEF TypeOK, DatabaseComesUp
  <1>16. CASE Settled \/ UNCHANGED vars
    BY <1>0, <1>16 DEF TypeOK, Settled, vars
  <1> QED
    BY <1>1, <1>2, <1>3, <1>4, <1>5, <1>6, <1>7, <1>8, <1>10, <1>11, <1>12, <1>13, <1>14,
       <1>15, <1>16 DEF Next, Proceed
\* The lock goes to a process that begins to migrate and away from one that stops.
LEMMA LockStep == StartupInv /\ [Next]_vars => LockHeld'
  <1> SUFFICES ASSUME StartupInv, [Next]_vars PROVE LockHeld'
    OBVIOUS
  <1>0. TypeOK /\ LockHeld
    BY DEF StartupInv
  <1> USE <1>0, StartupAssumption DEF LockHeld, TypeOK, Goto, Migrating
  <1>1. ASSUME NEW p \in Procs, Start(p) PROVE LockHeld'
    BY <1>1 DEF Start, Injector
  <1>2. ASSUME NEW p \in Procs,
               Fatal(p) \/ Connect(p) \/ ConnectError(p) \/ PingOk(p) \/ PingFail(p)
        PROVE  LockHeld'
    BY <1>2 DEF Fatal, Connect, ConnectError, PingOk, PingFail
  <1>3. ASSUME NEW p \in Procs, LockSchema(p) PROVE LockHeld'
    BY <1>3 DEF LockSchema
  <1>4. ASSUME NEW p \in Procs, LockTimeout(p) \/ FoundDirty(p) \/ MigrateError(p) PROVE LockHeld'
    BY <1>4 DEF LockTimeout, FoundDirty, MigrateError, ProvideDBFails
  <1>5. ASSUME NEW p \in Procs, CheckVersion(p) \/ ClearDirty(p) PROVE LockHeld'
    BY <1>5 DEF CheckVersion, ClearDirty, Unlocked
  <1>6. ASSUME NEW p \in Procs, MarkDirty(p) \/ RunBody(p) PROVE LockHeld'
    BY <1>6 DEF MarkDirty, RunBody
  <1>7. ASSUME NEW p \in Procs,
               ProvideRedisClient(p) \/ ProvideGRPCRateClient(p) \/ DialError(p) \/ Run(p) \/ RunError(p)
        PROVE  LockHeld'
    BY <1>7 DEF ProvideRedisClient, ProvideGRPCRateClient, DialError, Run, RunError
  <1>8. ASSUME NEW p \in Procs, Kill(p) PROVE LockHeld'
    BY <1>8 DEF Kill, Starting
  <1>9. CASE DatabaseComesUp \/ Settled \/ UNCHANGED vars
    BY <1>9 DEF DatabaseComesUp, Settled, vars
  <1> QED
    BY <1>1, <1>2, <1>3, <1>4, <1>5, <1>6, <1>7, <1>8, <1>9 DEF Next, Proceed

\* Only the holder of the lock changes the schema, one step of a migration after
\* the other; what it leaves when it stops is a complete or a dirty schema.
LEMMA SchemaStep ==
  StartupInv /\ [Next]_vars => SchemaOK' /\ \A q \in Procs : MigrationOK(q)' /\ ReadyOK(q)'
  <1> SUFFICES ASSUME StartupInv, [Next]_vars
               PROVE  SchemaOK' /\ \A q \in Procs : MigrationOK(q)' /\ ReadyOK(q)'
    OBVIOUS
  <1> DEFINE Goal == SchemaOK /\ \A q \in Procs : MigrationOK(q) /\ ReadyOK(q)
  <1>0. TypeOK /\ LockHeld /\ SchemaOK /\ \A q \in Procs : MigrationOK(q) /\ ReadyOK(q) /\ ClientsOK(q)
    BY DEF StartupInv
  <1>1. version \in Nat /\ version <= Migrations /\ Migrations \in Nat
    BY <1>0, StartupAssumption DEF TypeOK
  <1>2. ASSUME NEW p \in Procs, NEW q \in Procs, at[p] \in Migrating, q # p PROVE at[q] \notin Migrating
    BY <1>0, <1>2 DEF LockHeld
  \* Steps that leave the schema alone.
  <1> DEFINE Harmless(q) ==
        \/ at'[q] = at[q] /\ open'[q] = open[q]
        \/ at'[q] \in {"failed", "exit", "connect", "ping", "lock", "check"}
        \/ at'[q] = "mark" /\ ~ dirty /\ version < Migrations
        \/ at'[q] = "redis" /\ ~ dirty /\ version = Migrations
        \/ at[q] \in {"redis", "dial", "run"} /\ at'[q] \in {"dial", "run", "serve"}
             /\ ("pg" \in open'[q] => "pg" \in open[q])
        \/ at'[q] = "run" /\ open'[q] = {}
  <1>3. ASSUME UNCHANGED <<version, dirty, applied>>, \A q \in Procs : Harmless(q)
        PROVE  Goal'
    BY <1>0, <1>3 DEF SchemaOK, MigratedOnceInOrder, MigrationOK, ReadyOK
  <1> HIDE DEF Goal
  <1>4. ASSUME NEW p \in Procs, Start(p) PROVE Goal'
    <2>0. open[p] = {}
      BY <1>0, <1>4 DEF Start, ClientsOK
    <2>1. UNCHANGED <<version, dirty, applied>>
      BY <1>4 DEF Start, schema
    <2>2. ASSUME NEW q \in Procs PROVE Harmless(q)
      BY <1>0, <1>4, <2>0 DEF Start, Injector, TypeOK
    <2> QED BY <1>3, <2>1, <2>2
  <1>5. ASSUME NEW p \in Procs, Fatal(p) \/ Connect(p) \/ ConnectError(p) PROVE Goal'
    <2>1. UNCHANGED <<version, dirty, applied>>
      BY <1>5 DEF Fatal, Connect, ConnectError, schema
    <2>2. ASSUME NEW q \in Procs PROVE Harmless(q)
      BY <1>0, <1>5 DEF Fatal, Connect, ConnectError, Opened, Goto, TypeOK
    <2> QED BY <1>3, <2>1, <2>2
  <1>6. ASSUME NEW p \in Procs, PingOk(p) \/ PingFail(p) PROVE Goal'
    <2>1. UNCHANGED <<version, dirty, applied>>
      BY <1>6 DEF PingOk, PingFail, schema
    <2>2. ASSUME NEW q \in Procs PROVE Harmless(q)
      BY <1>0, <1>6 DEF PingOk, PingFail, Closed, Goto, TypeOK
    <2> QED BY <1>3, <2>1, <2>2
  <1>7. ASSUME NEW p \in Procs, LockSchema(p) \/ LockTimeout(p) \/ FoundDirty(p) PROVE Goal'
    <2>1. UNCHANGED <<version, dirty, applied>>
      BY <1>7 DEF LockSchema, LockTimeout, FoundDirty, schema
    <2>2. ASSUME NEW q \in Procs PROVE Harmless(q)
      BY <1>0, <1>7 DEF LockSchema, LockTimeout, FoundDirty, ProvideDBFails, Closed, Goto, TypeOK
    <2> QED BY <1>3, <2>1, <2>2
  <1>8. ASSUME NEW p \in Procs, CheckVersion(p) PROVE Goal'
    <2>1. UNCHANGED <<version, dirty, applied>>
      BY <1>8 DEF CheckVersion, schema
    <2>2. ASSUME NEW q \in Procs PROVE Harmless(q)
      BY <1>0, <1>8 DEF CheckVersion, Unlocked, Goto, TypeOK
    <2> QED BY <1>3, <2>1, <2>2
  <1>9. ASSUME NEW p \in Procs, ProvideRedisClient(p) \/ ProvideGRPCRateClient(p) PROVE Goal'
    <2>1. UNCHANGED <<version, dirty, applied>>
      BY <1>9 DEF ProvideRedisClient, ProvideGRPCRateClient, schema
    <2>2. ASSUME NEW q \in Procs PROVE Harmless(q)
      BY <1>0, <1>9 DEF ProvideRedisClient, ProvideGRPCRateClient, Opened, Goto, TypeOK
    <2> QED BY <1>3, <2>1, <2>2
  <1>10. ASSUME NEW p \in Procs, DialError(p) \/ Run(p) \/ RunError(p) PROVE Goal'
    <2>1. UNCHANGED <<version, dirty, applied>>
      BY <1>10 DEF DialError, Run, RunError, schema
    <2>2. ASSUME NEW q \in Procs PROVE Harmless(q)
      BY <1>0, <1>10 DEF DialError, Run, RunError, Closed, Goto, TypeOK
    <2> QED BY <1>3, <2>1, <2>2
  <1>11. ASSUME DatabaseComesUp \/ Settled \/ UNCHANGED vars PROVE Goal'
    BY <1>3, <1>11 DEF DatabaseComesUp, Settled, vars, schema
  \* The steps of a migration.
  <1>12. ASSUME NEW p \in Procs, MarkDirty(p) PROVE Goal'
    <2>1. at[p] = "mark" /\ ~ dirty /\ version < Migrations /\ applied = InOrder(version)
      BY <1>0, <1>12 DEF MarkDirty, Goto, MigrationOK, SchemaOK
    <2>2. SchemaOK'
      BY <1>1, <1>12, <2>1 DEF SchemaOK, MigratedOnceInOrder, MarkDirty
    <2>3. ASSUME NEW q \in Procs PROVE MigrationOK(q)' /\ ReadyOK(q)'
      BY <1>0, <1>1, <1>2, <1>12, <2>1 DEF MigrationOK, ReadyOK, MarkDirty, Goto, TypeOK, Migrating
    <2> QED BY <2>2, <2>3 DEF Goal
  <1>13. ASSUME NEW p \in Procs, at[p] = "body"
         PROVE  /\ dirty /\ version > 0 /\ applied = InOrder(version - 1)
                /\ Append(applied, version) = InOrder(version)
    <2>1. dirty /\ version > 0 /\ applied = InOrder(version - 1)
      BY <1>0, <1>13 DEF MigrationOK, SchemaOK
    <2>2. version - 1 \in Nat
      BY <1>1, <2>1
    <2>3. Append(InOrder(version - 1), (version - 1) + 1) = InOrder((version - 1) + 1)
      BY <2>2, InOrderAppend
    <2>4. (version - 1) + 1 = version
      BY <1>1
    <2> QED BY <2>1, <2>3, <2>4
  <1>14. ASSUME NEW p \in Procs, RunBody(p) PROVE Goal'
    <2>1. at[p] = "body" /\ dirty /\ version > 0 /\ applied' = InOrder(version)
      BY <1>13, <1>14 DEF RunBody, Goto
    <2>2. SchemaOK'
      BY <1>14, <2>1 DEF SchemaOK, MigratedOnceInOrder, RunBody
    <2>3. ASSUME NEW q \in Procs PROVE MigrationOK(q)' /\ ReadyOK(q)'
      BY <1>0, <1>2, <1>14, <2>1 DEF MigrationOK, ReadyOK, RunBody, Goto, TypeOK, Migrating
    <2> QED BY <2>2, <2>3 DEF Goal
  <1>15. ASSUME NEW p \in Procs, ClearDirty(p) PROVE Goal'
    <2>1. at[p] = "clear" /\ dirty /\ applied = InOrder(version)
      BY <1>0, <1>15 DEF ClearDirty, MigrationOK
    <2>2. SchemaOK'
      BY <1>15, <2>1 DEF SchemaOK, MigratedOnceInOrder, ClearDirty
    <2>3. ASSUME NEW q \in Procs PROVE MigrationOK(q)' /\ ReadyOK(q)'
      BY <1>0, <1>2, <1>15, <2>1 DEF MigrationOK, ReadyOK, ClearDirty, Unlocked, Goto, TypeOK, Migrating
    <2> QED BY <2>2, <2>3 DEF Goal
  \* A migration stops, in its statements or elsewhere.
  <1>16. ASSUME NEW p \in Procs, NEW to \in {"failed", "exit"},
                at' = [at EXCEPT ![p] = to], BodyOrNot(p), UNCHANGED <<version, dirty>>,
                \A q \in Procs \ {p} : open'[q] = open[q]
         PROVE  Goal'
    <2>1. applied' = applied \/ (at[p] = "body" /\ applied' = Append(applied, version))
      BY <1>16 DEF BodyOrNot
    <2>2. CASE applied' = applied
      <3>1. \A q \in Procs : Harmless(q)
        BY <1>0, <1>16 DEF TypeOK
      <3> QED BY <1>3, <1>16, <2>2, <3>1
    <2>3. CASE at[p] = "body" /\ applied' = Append(applied, version)
      <3>1. dirty /\ version > 0 /\ applied' = InOrder(version)
        BY <1>13, <2>3
      <3>2. SchemaOK'
        BY <1>16, <3>1 DEF SchemaOK, MigratedOnceInOrder
      <3>3. ASSUME NEW q \in Procs PROVE MigrationOK(q)' /\ ReadyOK(q)'
        BY <1>0, <1>2, <1>16, <2>3, <3>1 DEF MigrationOK, ReadyOK, TypeOK, Migrating
      <3> QED BY <3>2, <3>3 DEF Goal
    <2> QED BY <2>1, <2>2, <2>3
  <1>17. ASSUME NEW p \in Procs, MigrateError(p) \/ Kill(p) PROVE Goal'
    <2>1. \A q \in Procs \ {p} : open'[q] = open[q]
      BY <1>0, <1>17 DEF MigrateError, Kill, ProvideDBFails, Closed, TypeOK
    <2> QED BY <1>16, <1>17, <2>1 DEF MigrateError, Kill, ProvideDBFails
  <1> QED
    BY <1>4, <1>5, <1>6, <1>7, <1>8, <1>9, <1>10, <1>11, <1>12, <1>14, <1>15, <1>17
       DEF Next, Proceed, Goal

\* What a phase has opened and how often it has pinged follows the program.
LEMMA ClientsStep ==
  StartupInv /\ [Next]_vars => \A q \in Procs : ClientsOK(q)' /\ PingsOK(q)'
  <1> SUFFICES ASSUME StartupInv, [Next]_vars, NEW q \in Procs
               PROVE  ClientsOK(q)' /\ PingsOK(q)'
    OBVIOUS
  <1>0. TypeOK /\ (\A r \in Procs : ClientsOK(r) /\ PingsOK(r)) /\ MaxPings \in Nat \ {0}
    BY StartupAssumption DEF StartupInv
  <1> USE <1>0 DEF ClientsOK, PingsOK, TypeOK, Goto, Migrating
  <1>1. ASSUME NEW p \in Procs, Start(p) PROVE ClientsOK(q)' /\ PingsOK(q)'
    BY <1>1 DEF Start, Injector
  <1>2. ASSUME NEW p \in Procs, Fatal(p) \/ RunError(p) \/ Run(p) \/ ConnectError(p) \/ Kill(p)
        PROVE  ClientsOK(q)' /\ PingsOK(q)'
    BY <1>2 DEF Fatal, RunError, Run, ConnectError, Kill
  <1>3. ASSUME NEW p \in Procs, Connect(p) PROVE ClientsOK(q)' /\ PingsOK(q)'
    BY <1>3 DEF Connect, Opened
  <1>4. ASSUME NEW p \in Procs, PingOk(p) \/ LockSchema(p) \/ CheckVersion(p) \/ MarkDirty(p)
                                   \/ RunBody(p) \/ ClearDirty(p)
        PROVE  ClientsOK(q)' /\ PingsOK(q)'
    BY <1>4 DEF PingOk, LockSchema, CheckVersion, MarkDirty, RunBody, ClearDirty, Unlocked
  <1>5. ASSUME NEW p \in Procs, PingFail(p) PROVE ClientsOK(q)' /\ PingsOK(q)'
    BY <1>5 DEF PingFail, Closed
  <1>6. ASSUME NEW p \in Procs, LockTimeout(p) \/ FoundDirty(p) \/ MigrateError(p)
        PROVE  ClientsOK(q)' /\ PingsOK(q)'
    BY <1>6 DEF LockTimeout, FoundDirty, MigrateError, ProvideDBFails, Closed
  <1>7. ASSUME NEW p \in Procs, ProvideRedisClient(p) PROVE ClientsOK(q)' /\ PingsOK(q)'
    BY <1>7 DEF ProvideRedisClient, Opened
  <1>8. ASSUME NEW p \in Procs, ProvideGRPCRateClient(p) \/ DialError(p)
        PROVE  ClientsOK(q)' /\ PingsOK(q)'
    BY <1>8 DEF ProvideGRPCRateClient, DialError, Opened, Closed
  <1>9. CASE DatabaseComesUp \/ Settled \/ UNCHANGED vars
    BY <1>9 DEF DatabaseComesUp, Settled, vars
  <1> QED
    BY <1>1, <1>2, <1>3, <1>4, <1>5, <1>6, <1>7, <1>8, <1>9 DEF Next, Proceed

----------------------------------------------------------------------------
(* Theorems. *)

\* The invariant of all processes that start: one migrates at a time, and what
\* it leaves is complete up to its version or marked dirty.
THEOREM StartupInvariant == Spec => []StartupInv
  <1>1. StartupInv /\ [Next]_vars => StartupInv'
    BY TypeStep, LockStep, SchemaStep, ClientsStep DEF StartupInv
  <1> QED BY <1>1, InitInv, PTL DEF Spec

\* Start-up is type correct: no process pings more often than it may.
THEOREM StartupTypeCorrect == Spec => []TypeOK
  <1>1. StartupInv => TypeOK
    BY DEF StartupInv
  <1> QED BY <1>1, StartupInvariant, PTL

\* Each migration takes effect once and in order.
THEOREM StartupMigratedOnceInOrder == Spec => []MigratedOnceInOrder
  <1>1. StartupInv => MigratedOnceInOrder
    BY DEF StartupInv, SchemaOK
  <1> QED BY <1>1, StartupInvariant, PTL

\* No process serves from a schema that is not complete.
THEOREM StartupReadySchema == Spec => []ReadySchema
  <1>1. StartupInv => ReadySchema
    BY DEF StartupInv, ReadySchema, ReadyOK, SchemaOK
  <1> QED BY <1>1, StartupInvariant, PTL

\* An injector that fails has closed its clients.
THEOREM StartupFailureClosesAll == Spec => []FailureClosesAll
  <1>1. StartupInv => FailureClosesAll
    BY DEF StartupInv, FailureClosesAll, ClientsOK
  <1> QED BY <1>1, StartupInvariant, PTL

\* An interrupted migration blocks every later start.
THEOREM StartupDirtyBlocksStarts == Spec => DirtyBlocksStarts
  <1> DEFINE Blocked == Interrupted =>
               /\ UNCHANGED schema
               /\ \A p \in Procs : at'[p] = "redis" => at[p] = "redis"
  <1>1. StartupInv /\ [Next]_vars => [Blocked]_vars
    <2> SUFFICES ASSUME StartupInv, Next, Interrupted PROVE Blocked
      BY DEF vars
    <2>0. TypeOK /\ dirty /\ \A p \in Procs : at[p] \notin {"mark", "body", "clear"}
      BY DEF StartupInv, MigrationOK, Interrupted
    <2> USE <2>0 DEF TypeOK, Goto, schema
    <2>1. ASSUME NEW p \in Procs, Start(p) PROVE Blocked
      BY <2>1 DEF Start, Injector
    <2>2. ASSUME NEW p \in Procs,
                 Fatal(p) \/ Connect(p) \/ ConnectError(p) \/ PingOk(p) \/ PingFail(p) \/ LockSchema(p)
          PROVE  Blocked
      BY <2>2 DEF Fatal, Connect, ConnectError, PingOk, PingFail, LockSchema
    <2>3. ASSUME NEW p \in Procs, LockTimeout(p) \/ FoundDirty(p) \/ MigrateError(p) \/ Kill(p)
          PROVE  Blocked
      BY <2>3 DEF LockTimeout, FoundDirty, MigrateError, Kill, BodyOrNot, ProvideDBFails
    <2>4. ASSUME NEW p \in Procs, CheckVersion(p) \/ MarkDirty(p) \/ RunBody(p) \/ ClearDirty(p)
          PROVE  Blocked
      BY <2>4 DEF CheckVersion, MarkDirty, RunBody, ClearDirty
    <2>5. ASSUME NEW p \in Procs,
                 ProvideRedisClient(p) \/ ProvideGRPCRateClient(p) \/ DialError(p) \/ Run(p) \/ RunError(p)
          PROVE  Blocked
      BY <2>5 DEF ProvideRedisClient, ProvideGRPCRateClient, DialError, Run, RunError
    <2>6. CASE DatabaseComesUp \/ Settled
      BY <2>6 DEF DatabaseComesUp, Settled, vars
    <2> QED BY <2>1, <2>2, <2>3, <2>4, <2>5, <2>6 DEF Next, Proceed
  <1> QED BY <1>1, StartupInvariant, PTL DEF Spec, DirtyBlocksStarts
=============================================================================
