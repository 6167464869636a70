------------------------- MODULE ChanWorkersProofs -------------------------
(***************************************************************************)
(* The chan mode for any number of updates, worker goroutines, crashes,    *)
(* panics, expired deadlines and database errors, and any channel size:    *)
(* type correctness, delivery at most once, the implementation of the      *)
(* lifecycle, and the fate of dropped updates.                             *)
(***************************************************************************)
EXTENDS ChanWorkers, QuoteCompletionProofs

ChanTypeOK ==
  /\ handler \in [Jobs -> HandlerStates]
  /\ response \in [Jobs -> {"none", "202", "500", "503"}]
  /\ bus \in Seq(Jobs) /\ Len(bus) <= QueueSize
  /\ ctx \in [Workers -> {"none", "live", "expired", "parent"}]
  /\ leaked \subseteq LeakedTx
  /\ expiries \in 0..MaxExpiries
  /\ crashes \in 0..MaxCrashes
  /\ panics \in 0..MaxPanics

\* No row exists before its handler runs, and it is still queued while
\* its message is with the handler or in the channel.
RowsFollowHandlers ==
  \A j \in Jobs :
    /\ handler[j] = "none" => updates[j] = NoRow
    /\ handler[j] \in WithHandler \/ OnBus(j) => updates[j].status = "queued"

\* The inductive invariant: delivery at most once is what keeps two goroutines
\* from completing the same update, as CompletionInv wants.
ChanInv == CompletionInv /\ ChanTypeOK /\ RowsFollowHandlers /\ DeliveredOnce

----------------------------------------------------------------------------
(* The channel. *)

\* A send appends one message.
LEMMA SentBus ==
  ASSUME NEW b \in Seq(Jobs), NEW j \in Jobs
  PROVE  /\ Append(b, j) \in Seq(Jobs)
         /\ Len(Append(b, j)) = Len(b) + 1
         /\ DOMAIN Append(b, j) = 1..(Len(b) + 1)
         /\ Append(b, j)[Len(b) + 1] = j
         /\ \A i \in DOMAIN b : i \in 1..Len(b) /\ Append(b, j)[i] = b[i]
OBVIOUS

\* A receive takes the first message and moves the others up.
LEMMA ReceivedBus ==
  ASSUME NEW b \in Seq(Jobs), b # <<>>
  PROVE  /\ Head(b) = b[1] /\ Head(b) \in Jobs /\ 1 \in DOMAIN b
         /\ Tail(b) \in Seq(Jobs)
         /\ Len(Tail(b)) = Len(b) - 1
         /\ \A i \in DOMAIN Tail(b) : i + 1 \in DOMAIN b /\ i + 1 # 1 /\ Tail(b)[i] = b[i + 1]
OBVIOUS

\* NoJob is never sent.
LEMMA NoJobIsNoJob == NoJob \notin Jobs
BY JobsAssumption DEF NoJob

----------------------------------------------------------------------------
(* One lemma per group of actions. *)

\* The empty tables, the empty channel.
LEMMA ChanInitInv ==
  ASSUME Init
  PROVE  ChanInv /\ LC!Init
<1>1. CompletionInv /\ LC!Init
  BY CompletionInitInv DEF Init
<1>2. bus = <<>> /\ DOMAIN bus = {}
  BY DEF Init
<1>3. ChanTypeOK
  BY ChanAssumption DEF Init, ChanTypeOK, HandlerStates
<1>4. RowsFollowHandlers
  BY <1>2 DEF Init, CompletionInit, RowsFollowHandlers, OnBus, WithHandler
<1>5. DeliveredOnce
  BY <1>2, NoJobIsNoJob DEF Init, CompletionInit, DeliveredOnce, OnBus, Held, Workers
<1> QED BY <1>1, <1>3, <1>4, <1>5 DEF ChanInv

\* The INSERT of a handler, whether it learns of it or not: its update is in
\* nobody's hands.
LEMMA InsertInv ==
  ASSUME ChanInv, NEW j \in Jobs, NEW p \in Pairs, handler[j] = "none",
         updates' \in {updates, [updates EXCEPT ![j] = QueuedRow(p)]},
         UNCHANGED <<quotes, history, clock, completion, bus, ctx, leaked, faults>>,
         dbErrors' \in 0..MaxDbErrors,
         response' \in [Jobs -> {"none", "202", "500", "503"}],
         \/ handler' = [handler EXCEPT ![j] = "refused"]
         \/ /\ handler' = [handler EXCEPT ![j] = "respond"]
            /\ updates' # updates
  PROVE  ChanInv' /\ (LC!Request(j, p) \/ UNCHANGED tables)
<1> USE DEF ChanInv
<1>1. updates[j] = NoRow /\ ~ Held(j)
  BY DEF RowsFollowHandlers, DeliveredOnce
<1>2. QueuedRow(p) \in UpdateRow /\ updates \in UpdatesTable
  BY DEF QueuedRow, UpdateRow, Status, CompletionInv, CompletionTypeOK
<1>3. /\ updates' \in UpdatesTable
      /\ updates'[j] = QueuedRow(p) \/ updates' = updates
      /\ \A i \in Jobs : i # j => updates'[i] = updates[i]
  BY <1>2 DEF UpdatesTable
<1>4. \A w \in Procs : pc[w] # "idle" => job[w] \in Jobs /\ job[w] # j
  BY <1>1, BusyProc DEF Held, Workers
<1>5. CompletionInv'
  <2>1. \A w \in Procs : pc[w] # "idle" =>
          /\ updates'[job[w]].pair = updates[job[w]].pair
          /\ updates'[job[w]].status \in {"queued", "processing"}
    BY <1>3, <1>4 DEF CompletionInv, JobsOpen, LC!Unfinished
  <2> QED BY <1>3, <2>1, CompletionFrame
<1>6. ChanTypeOK'
  BY DEF ChanTypeOK, HandlerStates, faults
<1>7. /\ handler'[j] = "refused" \/ (handler'[j] = "respond" /\ updates'[j] = QueuedRow(p))
      /\ \A i \in Jobs : i # j => handler'[i] = handler[i]
  BY <1>3 DEF ChanTypeOK
<1>8. \A i \in Jobs : (OnBus(i)' <=> OnBus(i)) /\ (Held(i)' <=> Held(i))
  BY DEF OnBus, Held, completion
<1>9. RowsFollowHandlers'
  BY <1>1, <1>3, <1>7, <1>8 DEF RowsFollowHandlers, QueuedRow, WithHandler, Held
<1>10. \A w \in Workers : job'[w] = job[w] /\ (OnBus(job[w])' <=> OnBus(job[w]))
  BY DEF OnBus, completion
<1>11. DeliveredOnce'
  BY <1>1, <1>7, <1>8, <1>10 DEF DeliveredOnce
<1>12. LC!Request(j, p) \/ UNCHANGED tables
  BY <1>1, SameInsert DEF LC!Request, tables
<1> QED BY <1>5, <1>6, <1>9, <1>11, <1>12

\* The channel takes the message of a handler.
LEMMA SendInv ==
  ASSUME ChanInv, NEW j \in Jobs, Send(j)
  PROVE  ChanInv' /\ UNCHANGED tables
<1> USE DEF ChanInv, Send
<1>1. /\ handler[j] \in {"dispatch", "waiting"} /\ Len(bus) < QueueSize
      /\ bus' = Append(bus, j)
      /\ UNCHANGED <<updates, job, ctx, response, leaked, expiries, crashes, panics>>
  BY DEF HasRoom, tables, completion, faults
<1>2. handler'[j] = "sent" /\ \A i \in Jobs : i # j => handler'[i] = handler[i]
  BY DEF ChanTypeOK
<1>3. bus \in Seq(Jobs) /\ Len(bus) \in Nat
  BY DEF ChanTypeOK
<1>4. /\ bus' \in Seq(Jobs)
      /\ Len(bus') = Len(bus) + 1
      /\ DOMAIN bus' = 1..(Len(bus) + 1)
      /\ bus'[Len(bus) + 1] = j
      /\ \A i \in DOMAIN bus : i \in 1..Len(bus) /\ bus'[i] = bus[i]
  BY <1>1, <1>3, SentBus
<1>5. CompletionInv'
  BY FrameInv
<1>6. ChanTypeOK'
  <2>1. Len(bus') <= QueueSize
    BY <1>1, <1>3, <1>4, ChanAssumption
  <2> QED BY <1>1, <1>4, <2>1 DEF ChanTypeOK, HandlerStates
<1>7. ~ Held(j) /\ updates[j].status = "queued"
  BY <1>1 DEF DeliveredOnce, RowsFollowHandlers, WithHandler
<1>8. \A i : OnBus(i)' => OnBus(i) \/ i = j
  <2> SUFFICES ASSUME NEW i, NEW a \in DOMAIN bus', bus'[a] = i PROVE OnBus(i) \/ i = j
    BY DEF OnBus
  <2>1. CASE a = Len(bus) + 1
    BY <1>4, <2>1
  <2>2. CASE a # Len(bus) + 1
    <3>1. a \in DOMAIN bus
      BY <1>3, <1>4, <2>2
    <3> QED BY <1>4, <3>1 DEF OnBus
  <2> QED BY <2>1, <2>2
<1>9. RowsFollowHandlers'
  BY <1>1, <1>2, <1>7, <1>8 DEF RowsFollowHandlers, WithHandler
<1>10. \A a, b \in DOMAIN bus' : bus'[a] = bus'[b] => a = b
  <2> SUFFICES ASSUME NEW a \in DOMAIN bus', NEW b \in DOMAIN bus', bus'[a] = bus'[b]
               PROVE  a = b
    OBVIOUS
  <2>1. \A i \in DOMAIN bus : bus[i] # j
    BY <1>7 DEF Held, OnBus
  <2>2. \A i \in DOMAIN bus' : i = Len(bus) + 1 \/ i \in DOMAIN bus
    BY <1>3, <1>4
  <2> QED BY <1>4, <2>1, <2>2 DEF DeliveredOnce
<1>11. DeliveredOnce'
  <2>1. \A w \in Workers : job[w] # j
    BY <1>7 DEF Held
  <2>2. \A w \in Workers : job'[w] # NoJob => ~ OnBus(job[w])'
    BY <1>1, <1>8, <2>1 DEF DeliveredOnce
  <2>3. \A i \in Jobs : handler'[i] # "sent" => ~ Held(i)'
    BY <1>1, <1>2, <1>8 DEF DeliveredOnce, Held
  <2> QED BY <1>1, <1>10, <2>2, <2>3 DEF DeliveredOnce, OnBus
<1> QED BY <1>5, <1>6, <1>9, <1>11 DEF tables

\* A handler answers, finds the channel full and waits, or gives up: no message
\* moves.
LEMMA HandlerInv ==
  ASSUME ChanInv, NEW j \in Jobs, Accept(j) \/ StartTimer(j) \/ QueueFull(j)
  PROVE  ChanInv' /\ UNCHANGED tables
<1> USE DEF ChanInv
<1>1. /\ UNCHANGED <<tables, clock, completion, dbErrors, bus>>
      /\ UNCHANGED <<updates, job>>
  BY DEF Accept, StartTimer, QueueFull, tables, completion
<1>2. CompletionInv'
  BY <1>1, FrameInv
<1>3. ChanTypeOK'
  BY DEF Accept, StartTimer, QueueFull, WriteHeader, ChanTypeOK, HandlerStates, faults
<1>4. \A i \in Jobs : \/ handler'[i] = handler[i]
                      \/ /\ handler[i] = "respond" /\ handler'[i] = "dispatch"
                      \/ /\ handler[i] = "dispatch" /\ handler'[i] = "waiting"
                      \/ /\ handler[i] = "waiting" /\ handler'[i] = "rejected"
  BY DEF Accept, StartTimer, QueueFull, ChanTypeOK
<1>5. RowsFollowHandlers'
  BY <1>1, <1>4 DEF RowsFollowHandlers, OnBus, WithHandler
<1>6. DeliveredOnce'
  BY <1>1, <1>4 DEF DeliveredOnce, Held, OnBus
<1> QED BY <1>1, <1>2, <1>3, <1>5, <1>6

\* A deadline expires.
LEMMA ExpireInv ==
  ASSUME ChanInv, NEW w \in Workers, Expire(w) \/ WaitExpires(w)
  PROVE  ChanInv' /\ UNCHANGED tables
<1> USE DEF ChanInv, Expire, WaitExpires
<1>1. /\ UNCHANGED <<tables, clock, completion, dbErrors>>
      /\ UNCHANGED <<updates, job, bus, handler>>
  BY DEF tables, completion
<1>2. CompletionInv'
  BY <1>1, FrameInv
<1>3. ChanTypeOK'
  BY ChanAssumption DEF ChanTypeOK, faults
<1>4. RowsFollowHandlers' /\ DeliveredOnce'
  BY <1>1 DEF RowsFollowHandlers, DeliveredOnce, Held, OnBus
<1> QED BY <1>1, <1>2, <1>3, <1>4

\* A goroutine takes a message: its update is queued, and nobody else's.
LEMMA ReceiveInv ==
  ASSUME ChanInv, NEW w \in Workers, Receive(w)
  PROVE  ChanInv' /\ UNCHANGED tables
<1> USE DEF ChanInv
<1> DEFINE j == Head(bus)
<1>1. /\ bus # <<>> /\ bus' = Tail(bus)
      /\ pc[w] = "idle" /\ pc' = [pc EXCEPT ![w] = "fetch"]
      /\ job' = [job EXCEPT ![w] = j]
      /\ ctx' = [ctx EXCEPT ![w] = "live"]
      /\ UNCHANGED <<tables, updates, clock, quote, staged, dbErrors, handler, response, leaked,
                     expiries, crashes, panics>>
  BY DEF Receive, Goto, tables, faults
<1>2. bus \in Seq(Jobs) /\ Len(bus) \in Nat
  BY DEF ChanTypeOK
<1>3. /\ j = bus[1] /\ j \in Jobs /\ 1 \in DOMAIN bus
      /\ bus' \in Seq(Jobs)
      /\ Len(bus') = Len(bus) - 1
      /\ \A i \in DOMAIN bus' : i + 1 \in DOMAIN bus /\ i + 1 # 1 /\ bus'[i] = bus[i + 1]
  BY <1>1, <1>2, ReceivedBus
<1> HIDE DEF j
<1>4. OnBus(j) /\ updates[j].status = "queued"
  BY <1>3 DEF OnBus, RowsFollowHandlers
<1>5. \A v \in Workers : job[v] # j
  BY <1>3, <1>4, NoJobIsNoJob DEF DeliveredOnce
<1>6. CompletionInv'
  BY <1>1, <1>3, <1>4, <1>5, StartInv DEF Workers
<1>7. ChanTypeOK'
  <2>1. Len(bus') <= QueueSize
    BY <1>2, <1>3, ChanAssumption DEF ChanTypeOK
  <2> QED BY <1>1, <1>3, <2>1 DEF ChanTypeOK
<1>8. \A i : OnBus(i)' => OnBus(i) /\ i # j
  BY <1>3 DEF OnBus, DeliveredOnce
<1>9. RowsFollowHandlers'
  BY <1>1, <1>8 DEF RowsFollowHandlers
<1>10. job'[w] = j /\ \A v \in Workers \ {w} : job'[v] = job[v]
  BY <1>1 DEF CompletionInv, CompletionTypeOK, Workers
<1>11. DeliveredOnce'
  <2>1. \A a, b \in DOMAIN bus' : bus'[a] = bus'[b] => a = b
    <3> SUFFICES ASSUME NEW a \in DOMAIN bus', NEW b \in DOMAIN bus', bus'[a] = bus'[b]
                 PROVE  a = b
      OBVIOUS
    <3>1. a + 1 = b + 1
      BY <1>3 DEF DeliveredOnce
    <3>2. a \in Nat /\ b \in Nat
      BY <1>3
    <3> QED BY <3>1, <3>2
  <2>2. \A v \in Workers : job'[v] # NoJob => ~ OnBus(job[v])'
    BY <1>1, <1>8, <1>10 DEF DeliveredOnce, OnBus
  <2>3. \A u, v \in Workers : u # v /\ job'[u] # NoJob => job'[u] # job'[v]
    BY <1>5, <1>10 DEF DeliveredOnce
  <2>4. \A i \in Jobs : handler'[i] # "sent" => ~ Held(i)'
    <3>1. \A i \in Jobs : Held(i)' => Held(i)
      BY <1>4, <1>8, <1>10 DEF Held
    <3> QED BY <1>1, <3>1 DEF DeliveredOnce
  <2> QED BY <2>1, <2>2, <2>3, <2>4 DEF DeliveredOnce
<1> QED BY <1>1, <1>6, <1>7, <1>9, <1>11 DEF tables

\* A panic: the goroutine keeps its update and is about to record a failure.  What
\* its transaction had staged is never committed.
LEMMA RecoverEffect ==
  ASSUME ChanInv, NEW w \in Workers, Recover(w)
  PROVE  /\ CompletionInv' /\ UNCHANGED <<tables, job>>
         /\ job[w] \in Jobs
         /\ leaked' \subseteq LeakedTx
<1> USE DEF ChanInv, CompletionInv, Workers
<1>1. /\ pc[w] # "idle" /\ pc' = [pc EXCEPT ![w] = "fail"]
      /\ quote' = [quote EXCEPT ![w] = NoQuote]
      /\ staged' = [staged EXCEPT ![w] = {}]
      /\ UNCHANGED <<tables, updates, quotes, history, clock, job, dbErrors>>
  BY DEF Recover, tables
<1>2. CompletionTypeOK'
  BY <1>1 DEF CompletionTypeOK, Labels
<1>3. LocalsOK'
  BY <1>1 DEF LocalsOK, CompletionTypeOK, Appended, InTx
<1>4. JobsOpen'
  BY <1>1 DEF JobsOpen, LC!Unfinished, CompletionTypeOK
<1>5. \A o \in Procs : pc'[o] \in Appended =>
        pc[o] \in Appended /\ staged'[o] = staged[o] /\ MyRow(o)' = MyRow(o)
  BY <1>1 DEF MyRow, JobPair, CompletionTypeOK, Appended
<1>6. \A o \in Procs : staged'[o] \subseteq staged[o]
  BY <1>1 DEF CompletionTypeOK
<1>7. StagedOK'
  BY <1>1, <1>5, <1>6 DEF StagedOK
<1>8. job[w] \in Jobs
  BY <1>1, BusyProc
<1>9. leaked' \subseteq LeakedTx
  BY <1>8 DEF Recover, ChanTypeOK, LeakedTx, CompletionTypeOK
<1> QED BY <1>1, <1>2, <1>3, <1>4, <1>7, <1>8, <1>9

\* What a goroutine does between two messages: its own locals and the row of its
\* update, which it leaves alone or finishes.
LEMMA WorkEffect ==
  ASSUME ChanInv, NEW w \in Workers,
         Recover(w) \/ WorkStep(w) \/ WorkFault(w) \/ ExpiredStep(w)
  PROVE  /\ CompletionInv' /\ [LC!Next]_LC!vars
         /\ ChanTypeOK' /\ UNCHANGED <<handler, bus>>
         /\ job[w] \in Jobs
         /\ \A o \in Workers \ {w} : job'[o] = job[o]
         /\ (job'[w] = job[w] /\ updates' = updates) \/ job'[w] = NoJob
         /\ \A i \in Jobs : i # job[w] => updates'[i] = updates[i]
<1> USE DEF ChanInv, Workers
<1>1. CASE Recover(w)
  <2>1. /\ CompletionInv' /\ UNCHANGED <<tables, job>>
        /\ job[w] \in Jobs
        /\ leaked' \subseteq LeakedTx
    BY <1>1, RecoverEffect
  <2>2. ChanTypeOK' /\ UNCHANGED <<handler, bus>>
    BY <1>1, <2>1, ChanAssumption DEF Recover, ChanTypeOK
  <2> QED BY <2>1, <2>2 DEF tables, LC!vars
<1>2. WorkStep(w) \/ WorkFault(w) \/ ExpiredStep(w) => ChanTypeOK' /\ UNCHANGED <<handler, bus>>
  BY DEF WorkStep, WorkFault, ExpiredStep, LeaveContext, ChanTypeOK, faults
<1>3. CASE (CompletionStep(w) \/ CompletionFault(w)) /\ ChanTypeOK' /\ UNCHANGED <<handler, bus>>
  <2>1. CompletionInv' /\ [LC!Next]_LC!vars
    BY <1>3, CompletionImplementsLifecycle
  <2>2. /\ pc[w] # "idle"
        /\ \A o \in Procs \ {w} : pc'[o] = pc[o] /\ job'[o] = job[o]
        /\ pc'[w] # "idle" => job'[w] = job[w] /\ updates' = updates
        /\ \A i \in Jobs : i # job[w] => updates'[i] = updates[i]
    BY <1>3, CompletionEffect
  <2>3. pc'[w] = "idle" => job'[w] = NoJob
    BY <2>1 DEF CompletionInv, LocalsOK
  <2> QED BY <1>3, <2>1, <2>2, <2>3, BusyProc
<1>4. CASE /\ Abandon(w, {"fail", "begin"} \cup InTx) /\ UNCHANGED dbErrors
           /\ ChanTypeOK' /\ UNCHANGED <<handler, bus>>
  <2>1. pc[w] # "idle" /\ Reset(w) /\ UNCHANGED <<tables, clock, dbErrors>>
    BY <1>4 DEF Abandon, InTx
  <2>2. CompletionInv'
    BY <2>1, ResetInv DEF CompletionInv, CompletionTypeOK
  <2>3. job'[w] = NoJob /\ \A o \in Procs \ {w} : job'[o] = job[o]
    BY <2>1 DEF Reset, CompletionInv, CompletionTypeOK
  <2> QED BY <1>4, <2>1, <2>2, <2>3, BusyProc DEF tables, LC!vars
<1>5. FetchErr(w) \/ FetchOk(w) => CompletionStep(w)
  BY DEF CompletionStep
<1>6. \/ Recover(w)
      \/ /\ \/ CompletionStep(w) \/ CompletionFault(w)
            \/ Abandon(w, {"fail", "begin"} \cup InTx) /\ UNCHANGED dbErrors
         /\ ChanTypeOK' /\ UNCHANGED <<handler, bus>>
  BY <1>2, <1>5 DEF WorkStep, WorkFault, ExpiredStep
<1> QED BY <1>1, <1>3, <1>4, <1>6

\* Such a step keeps the invariant: the update is on nobody's way.
LEMMA WorkInv ==
  ASSUME ChanInv, NEW w \in Workers,
         Recover(w) \/ WorkStep(w) \/ WorkFault(w) \/ ExpiredStep(w)
  PROVE  ChanInv' /\ [LC!Next]_LC!vars
<1> USE DEF ChanInv
<1>1. /\ CompletionInv' /\ [LC!Next]_LC!vars
      /\ ChanTypeOK' /\ UNCHANGED <<handler, bus>>
      /\ job[w] \in Jobs
      /\ \A o \in Workers \ {w} : job'[o] = job[o]
      /\ (job'[w] = job[w] /\ updates' = updates) \/ job'[w] = NoJob
      /\ \A i \in Jobs : i # job[w] => updates'[i] = updates[i]
  BY WorkEffect
<1>2. \A i : OnBus(i)' <=> OnBus(i)
  BY <1>1 DEF OnBus
<1>3. Held(job[w]) /\ ~ OnBus(job[w]) /\ handler[job[w]] = "sent"
  BY <1>1, NoJobIsNoJob DEF DeliveredOnce, Held
<1>4. RowsFollowHandlers'
  BY <1>1, <1>2, <1>3 DEF RowsFollowHandlers, WithHandler
<1>5. \A o \in Workers : job'[o] \in {job[o], NoJob}
  BY <1>1
<1>6. DeliveredOnce'
  <2>1. \A a, b \in DOMAIN bus' : bus'[a] = bus'[b] => a = b
    BY <1>1 DEF DeliveredOnce
  <2>2. \A o \in Workers : job'[o] # NoJob => ~ OnBus(job[o])'
    BY <1>1, <1>5 DEF DeliveredOnce, OnBus
  <2>3. \A u, v \in Workers : u # v /\ job'[u] # NoJob => job'[u] # job'[v]
    BY <1>5 DEF DeliveredOnce
  <2>4. \A i \in Jobs : handler'[i] # "sent" => ~ Held(i)'
    BY <1>1, <1>2, <1>5, NoJobIsNoJob DEF DeliveredOnce, Held
  <2> QED BY <2>1, <2>2, <2>3, <2>4 DEF DeliveredOnce
<1> QED BY <1>1, <1>4, <1>6

\* The API process dies: no message and no goroutine is left.
LEMMA CrashInv ==
  ASSUME ChanInv, Crash
  PROVE  ChanInv' /\ UNCHANGED tables
<1> USE DEF ChanInv, Crash
<1>1. bus' = <<>> /\ DOMAIN bus' = {} /\ updates' = updates
  BY DEF tables
<1>2. CompletionInv'
  BY AllResetInv DEF Workers
<1>3. ChanTypeOK'
  BY ChanAssumption DEF ChanTypeOK, HandlerStates
<1>4. \A j \in Jobs : handler'[j] \in {handler[j], "lost"} /\ handler'[j] \notin WithHandler
  BY DEF ChanTypeOK, WithHandler
<1>5. RowsFollowHandlers'
  BY <1>1, <1>4 DEF RowsFollowHandlers, OnBus
<1>6. \A w \in Workers : job'[w] = NoJob
  OBVIOUS
<1>7. DeliveredOnce'
  BY <1>1, <1>6, NoJobIsNoJob DEF DeliveredOnce, Held, OnBus
<1> QED BY <1>2, <1>3, <1>5, <1>7

\* Every step of the chan mode keeps the invariant and is a step or a stutter of
\* the lifecycle.
LEMMA ChanNextInv ==
  ASSUME ChanInv, [Next]_vars
  PROVE  ChanInv' /\ [LC!Next]_LC!vars
<1> USE DEF LC!vars, tables
<1>1. CASE UNCHANGED vars
  <2>1. CompletionInv'
    BY <1>1, FrameInv DEF vars, ChanInv
  <2> QED BY <1>1, <2>1 DEF vars, chan, faults, completion, ChanInv, ChanTypeOK, RowsFollowHandlers,
                            DeliveredOnce, Held, OnBus
<1>2. CASE Provider
  <2>1. CompletionInv' /\ UNCHANGED tables
    BY <1>2, TickInv DEF Provider, ChanInv
  <2> QED BY <1>2, <2>1 DEF Provider, Tick, chan, faults, completion, ChanInv, ChanTypeOK, RowsFollowHandlers,
                            DeliveredOnce, Held, OnBus
<1>3. ASSUME NEW j \in Jobs, NEW p \in Pairs, Insert(j, p) \/ InsertError(j, p)
      PROVE  ChanInv' /\ [LC!Next]_LC!vars
  <2>1. /\ handler[j] = "none" /\ updates' \in {updates, [updates EXCEPT ![j] = QueuedRow(p)]}
        /\ UNCHANGED <<quotes, history, clock, completion, bus, ctx, leaked, faults>>
        /\ dbErrors' \in 0..MaxDbErrors
        /\ response' \in [Jobs -> {"none", "202", "500", "503"}]
    BY <1>3, DbErrorsAssumption DEF Insert, InsertError, WriteHeader, DbError, ChanInv, ChanTypeOK,
                                    CompletionInv, CompletionTypeOK
  <2>2. \/ handler' = [handler EXCEPT ![j] = "refused"]
        \/ handler' = [handler EXCEPT ![j] = "respond"] /\ updates' # updates
    <3>1. updates[j] = NoRow /\ updates \in UpdatesTable /\ QueuedRow(p) # NoRow
      BY <2>1 DEF ChanInv, RowsFollowHandlers, CompletionInv, CompletionTypeOK, QueuedRow, NoRow
    <3> QED BY <1>3, <3>1 DEF Insert, InsertError, UpdatesTable
  <2>3. ChanInv' /\ (LC!Request(j, p) \/ UNCHANGED tables)
    BY <2>1, <2>2, InsertInv
  <2> QED BY <2>3 DEF LC!Next
<1>4. ASSUME NEW j \in Jobs, Send(j)
      PROVE  ChanInv' /\ [LC!Next]_LC!vars
  BY <1>4, SendInv
<1>5. ASSUME NEW j \in Jobs, Accept(j) \/ StartTimer(j) \/ QueueFull(j)
      PROVE  ChanInv' /\ [LC!Next]_LC!vars
  BY <1>5, HandlerInv
<1>6. ASSUME NEW w \in Workers, Expire(w) \/ WaitExpires(w)
      PROVE  ChanInv' /\ [LC!Next]_LC!vars
  BY <1>6, ExpireInv
<1>7. ASSUME NEW w \in Workers, Receive(w)
      PROVE  ChanInv' /\ [LC!Next]_LC!vars
  BY <1>7, ReceiveInv
<1>8. ASSUME NEW w \in Workers, Recover(w) \/ WorkStep(w) \/ WorkFault(w) \/ ExpiredStep(w)
      PROVE  ChanInv' /\ [LC!Next]_LC!vars
  BY <1>8, WorkInv
<1>9. CASE Crash
  BY <1>9, CrashInv
<1> QED BY <1>1, <1>2, <1>3, <1>4, <1>5, <1>6, <1>7, <1>8, <1>9 DEF Next, Idle

----------------------------------------------------------------------------

\* The inductive invariant of the chan mode.
THEOREM ChanInvariant == Spec => []ChanInv
<1>1. Init => ChanInv
  BY ChanInitInv
<1>2. ChanInv /\ [Next]_vars => ChanInv'
  BY ChanNextInv
<1> QED BY <1>1, <1>2, PTL DEF Spec

\* Type correctness; in particular the channel never exceeds its buffer.
THEOREM ChanTypeCorrect == Spec => []TypeOK
<1>1. ChanInv => TypeOK
  BY DEF ChanInv, CompletionInv, ChanTypeOK, TypeOK
<1> QED BY <1>1, ChanInvariant, PTL

\* No accepted update reaches two goroutines, or one of them twice.
THEOREM ChanDeliveredOnce == Spec => []DeliveredOnce
<1>1. ChanInv => DeliveredOnce
  BY DEF ChanInv
<1> QED BY <1>1, ChanInvariant, PTL

\* The chan mode implements the lifecycle, deadlines, panics and crashes
\* included.
THEOREM ChanImplementsLifecycle == Spec => ImplementsLifecycle
<1>1. Init => LC!Init
  BY ChanInitInv
<1>2. ChanInv /\ [Next]_vars => [LC!Next]_LC!vars
  BY ChanNextInv
<1> QED BY <1>1, <1>2, ChanInvariant, PTL DEF Spec, ImplementsLifecycle, LC!Spec

\* What clients read of a finished update never changes.
THEOREM ChanFinishedReadIsFinal == Spec => FinishedReadIsFinal
BY ChanImplementsLifecycle, LifecycleFinal, PTL

\* What clients of the chan mode read is coherent, as in the db mode.
THEOREM ChanReads ==
  Spec => []ReadCoherent /\ []LastQuoteInHistory /\ []OneHistoryRowPerJob /\ []DoneThenLastQuote
BY ChanImplementsLifecycle, LifecycleReads, PTL
----------------------------------------------------------------------------
(* Dropped updates. *)

\* No step sends, takes or rewrites a queued update whose message is gone.
LEMMA DroppedStep ==
  ASSUME ChanInv, [Next]_vars, NEW j \in Dropped
  PROVE  updates'[j] = updates[j] /\ j \in Dropped'
<1> USE DEF ChanInv
<1>1. /\ j \in Jobs /\ j # NoJob /\ updates[j].status = "queued"
      /\ handler[j] \notin {"none"} \cup WithHandler
      /\ ~ OnBus(j) /\ \A w \in Workers : job[w] # j
  BY NoJobIsNoJob DEF Dropped, Held, RowsFollowHandlers, NoRow
<1> DEFINE Kept == /\ updates'[j] = updates[j]
                   /\ handler'[j] \notin WithHandler
                   /\ ~ OnBus(j)' /\ \A w \in Workers : job'[w] # j
<1>2. Kept => updates'[j] = updates[j] /\ j \in Dropped'
  BY <1>1 DEF Dropped, Held
<1>3. CASE UNCHANGED vars \/ Provider
  BY <1>1, <1>2, <1>3 DEF vars, Provider, Tick, tables, completion, chan, OnBus
<1>4. ASSUME NEW i \in Jobs, NEW p \in Pairs, Insert(i, p) \/ InsertError(i, p)
      PROVE  Kept
  BY <1>1, <1>4 DEF Insert, InsertError, completion, OnBus, ChanTypeOK, CompletionInv, CompletionTypeOK,
                    UpdatesTable
<1>5. ASSUME NEW i \in Jobs, Send(i)
      PROVE  Kept
  <2>1. i # j /\ bus \in Seq(Jobs) /\ bus' = Append(bus, i)
    BY <1>1, <1>5 DEF Send, ChanTypeOK, WithHandler
  <2>2. ~ OnBus(j)'
    BY <1>1, <2>1, SentBus DEF OnBus
  <2> QED BY <1>1, <1>5, <2>1, <2>2 DEF Send, tables, completion, ChanTypeOK
<1>6. ASSUME NEW i \in Jobs, Accept(i) \/ StartTimer(i) \/ QueueFull(i)
      PROVE  Kept
  BY <1>1, <1>6 DEF Accept, StartTimer, QueueFull, tables, completion, OnBus, ChanTypeOK, WithHandler
<1>7. ASSUME NEW w \in Workers, Expire(w) \/ WaitExpires(w)
      PROVE  Kept
  BY <1>1, <1>7 DEF Expire, WaitExpires, tables, completion, OnBus
<1>8. ASSUME NEW w \in Workers, Receive(w)
      PROVE  Kept
  <2>1. bus \in Seq(Jobs) /\ bus # <<>> /\ bus' = Tail(bus)
    BY <1>8 DEF Receive, ChanTypeOK
  <2>2. Head(bus) # j /\ ~ OnBus(j)'
    BY <1>1, <2>1, ReceivedBus DEF OnBus
  <2> QED BY <1>1, <1>8, <2>2 DEF Receive, tables, Workers, CompletionInv, CompletionTypeOK
<1>9. ASSUME NEW w \in Workers, Recover(w) \/ WorkStep(w) \/ WorkFault(w) \/ ExpiredStep(w)
      PROVE  Kept
  BY <1>1, <1>9, WorkEffect DEF OnBus
<1>10. CASE Crash
  BY <1>1, <1>2, <1>10 DEF Crash, tables, OnBus, ChanTypeOK
<1> QED
  BY <1>2, <1>3, <1>4, <1>5, <1>6, <1>7, <1>8, <1>9, <1>10 DEF Next, Idle

\* An update whose message is gone stays queued for good, over restarts too.
THEOREM ChanDroppedStays == Spec => DroppedStays
<1>1. ChanInv /\ [Next]_vars => [\A j \in Dropped : updates'[j] = updates[j] /\ j \in Dropped']_vars
  BY DroppedStep
<1> QED BY <1>1, ChanInvariant, PTL DEF Spec, DroppedStays
============================================================================
