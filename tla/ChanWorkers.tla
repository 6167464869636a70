---------------------------- MODULE ChanWorkers ----------------------------
(***************************************************************************)
(* The chan worker mode: one API process whose HTTP handlers insert queued *)
(* updates, answer 202 and hand the job to a buffered Go channel, and whose*)
(* goroutines (ChanWorker) receive from the channel and complete the jobs  *)
(* under a deadline.  The channel and the goroutines die with the process. *)
(***************************************************************************)
EXTENDS QuoteCompletion, Sequences

CONSTANTS QueueSize,      \* CHAN_QUEUE_SIZE
          MaxExpiries,    \* bound on expired 5 s deadlines
          MaxCrashes,     \* bound on crashes of the API process
          MaxPanics       \* bound on panics of CompleteQuoteUpdate

ASSUME ChanAssumption ==
  QueueSize \in Nat \ {0} /\ MaxExpiries \in Nat /\ MaxCrashes \in Nat /\ MaxPanics \in Nat

VARIABLES handler,     \* per job, the handler that creates it: "none",
                       \* "respond" after the INSERT, "dispatch" after the 202,
                       \* "waiting" for room in the channel, "sent", "rejected",
                       \* "refused" after a failed INSERT, or "lost" in a crash
          response,    \* per job, the status code its client receives
          bus,         \* the channel
          ctx,         \* per worker: "none", "live", "expired", or "parent"
                       \* (the context of Start, which has no deadline)
          leaked,      \* transactions that a panic has left open for good
          expiries, crashes, panics

faults == <<expiries, crashes, panics>>
chan == <<handler, response, bus, ctx, leaked, faults>>
vars == <<tables, clock, completion, dbErrors, chan>>

Workers == Procs

HandlerStates ==
  {"none", "respond", "dispatch", "waiting", "sent", "rejected", "refused", "lost"}

\* The message of an update is still with its handler.
WithHandler == {"respond", "dispatch", "waiting"}

\* The statement that panicked and what its transaction has written before.
LeakedTx == [at : InTx, job : Jobs, staged : SUBSET HistoryRow]

TypeOK ==
  /\ CompletionTypeOK
  /\ handler \in [Jobs -> HandlerStates]
  /\ response \in [Jobs -> {"none", "202", "500", "503"}]
  /\ bus \in Seq(Jobs) /\ Len(bus) <= QueueSize
  /\ ctx \in [Workers -> {"none", "live", "expired", "parent"}]
  /\ leaked \subseteq LeakedTx
  /\ expiries \in 0..MaxExpiries
  /\ crashes \in 0..MaxCrashes
  /\ panics \in 0..MaxPanics

Init ==
  /\ CompletionInit
  /\ handler = [j \in Jobs |-> "none"]
  /\ response = [j \in Jobs |-> "none"]
  /\ bus = <<>>
  /\ ctx = [w \in Workers |-> "none"]
  /\ leaked = {}
  /\ expiries = 0
  /\ crashes = 0
  /\ panics = 0

----------------------------------------------------------------------------
(* The handler of POST /quotes/updates, from the INSERT on. *)

\* WriteHeader: the first status of a response is the one that is sent.
WriteHeader(j, code) ==
  response' = [response EXCEPT ![j] = IF @ = "none" THEN code ELSE @]

\* CreateQueued: the INSERT of the queued row.
Insert(j, p) ==
  /\ handler[j] = "none"
  /\ updates' = [updates EXCEPT ![j] = QueuedRow(p)]
  /\ handler' = [handler EXCEPT ![j] = "respond"]
  /\ UNCHANGED <<quotes, history, clock, completion, dbErrors, response, bus, ctx, leaked, faults>>

\* CreateQueued fails, maybe with the row inserted: 500 and no dispatch.
InsertError(j, p) ==
  /\ handler[j] = "none"
  /\ DbError
  /\ updates' \in {updates, [updates EXCEPT ![j] = QueuedRow(p)]}
  /\ WriteHeader(j, "500")
  /\ handler' = [handler EXCEPT ![j] = "refused"]
  /\ UNCHANGED <<quotes, history, clock, completion, bus, ctx, leaked, faults>>

\* writeJSON(202), before the dispatch.
Accept(j) ==
  /\ handler[j] = "respond"
  /\ WriteHeader(j, "202")
  /\ handler' = [handler EXCEPT ![j] = "dispatch"]
  /\ UNCHANGED <<tables, clock, completion, dbErrors, bus, ctx, leaked, faults>>

HasRoom == Len(bus) < QueueSize

\* Mutant of Send: the second select is entered with the message already in
\* the channel, which sends it again.
SendTwice(j) ==
  /\ handler[j] \in {"dispatch", "waiting"}
  /\ HasRoom
  /\ bus' = Append(bus, j)
  /\ handler' = [handler EXCEPT ![j] = IF @ = "dispatch" THEN "waiting" ELSE "sent"]
  /\ UNCHANGED <<tables, clock, completion, dbErrors, response, ctx, leaked, faults>>

\* Either select of Enqueue sends.
Send(j) ==
  /\ handler[j] \in {"dispatch", "waiting"}
  /\ HasRoom
  /\ bus' = Append(bus, j)
  /\ handler' = [handler EXCEPT ![j] = "sent"]
  /\ UNCHANGED <<tables, clock, completion, dbErrors, response, ctx, leaked, faults>>

\* The first select falls to its default: a 50 ms timer is started.
StartTimer(j) ==
  /\ handler[j] = "dispatch"
  /\ ~ HasRoom
  /\ handler' = [handler EXCEPT ![j] = "waiting"]
  /\ UNCHANGED <<tables, clock, completion, dbErrors, response, bus, ctx, leaked, faults>>

\* The timer fires ("queue full") or the client is gone (ctx.Done), maybe when
\* there is room again; the handler answers 503.
QueueFull(j) ==
  /\ handler[j] = "waiting"
  /\ WriteHeader(j, "503")
  /\ handler' = [handler EXCEPT ![j] = "rejected"]
  /\ UNCHANGED <<tables, clock, completion, dbErrors, bus, ctx, leaked, faults>>

----------------------------------------------------------------------------
(* ChanWorker: Start and processOne. *)

\* Mutant of Receive: the message only wakes the worker up, which then takes
\* any queued row.
ReceiveAny(w) ==
  /\ bus # <<>>
  /\ Goto(w, "idle", "fetch")
  /\ \E j \in Jobs : /\ updates[j].status = "queued"
                     /\ job' = [job EXCEPT ![w] = j]
  /\ bus' = Tail(bus)
  /\ ctx' = [ctx EXCEPT ![w] = "live"]
  /\ UNCHANGED <<tables, clock, quote, staged, dbErrors, handler, response, leaked, faults>>

\* Mutant of Receive: the message stays in the channel.
ReceivePeek(w) ==
  /\ bus # <<>>
  /\ Goto(w, "idle", "fetch")
  /\ job' = [job EXCEPT ![w] = Head(bus)]
  /\ ctx' = [ctx EXCEPT ![w] = "live"]
  /\ UNCHANGED <<tables, clock, quote, staged, dbErrors, handler, response, bus, leaked, faults>>

\* m := <-w.jobs; context.WithTimeout(ctx, 5 s); CompleteQuoteUpdate.
Receive(w) ==
  /\ bus # <<>>
  /\ Goto(w, "idle", "fetch")
  /\ job' = [job EXCEPT ![w] = Head(bus)]
  /\ bus' = Tail(bus)
  /\ ctx' = [ctx EXCEPT ![w] = "live"]
  /\ UNCHANGED <<tables, clock, quote, staged, dbErrors, handler, response, leaked, faults>>

\* The five seconds are over.
Expire(w) ==
  /\ ctx[w] = "live"
  /\ expiries < MaxExpiries
  /\ expiries' = expiries + 1
  /\ ctx' = [ctx EXCEPT ![w] = "expired"]
  /\ UNCHANGED <<tables, clock, completion, dbErrors, handler, response, bus, leaked, crashes, panics>>

\* Mutant of Recover: the deferred function only logs the panic.
RecoverLogs(w) ==
  /\ ctx[w] \in {"live", "expired"}
  /\ panics < MaxPanics
  /\ panics' = panics + 1
  /\ Reset(w)
  /\ ctx' = [ctx EXCEPT ![w] = "none"]
  /\ UNCHANGED <<tables, clock, dbErrors, handler, response, bus, leaked, expiries, crashes>>

\* Mutant of Recover: it also puts the message back for another try.
RecoverRetries(w) ==
  /\ ctx[w] \in {"live", "expired"}
  /\ panics < MaxPanics
  /\ panics' = panics + 1
  /\ HasRoom
  /\ bus' = Append(bus, job[w])
  /\ pc' = [pc EXCEPT ![w] = "fail"]
  /\ quote' = [quote EXCEPT ![w] = NoQuote]
  /\ staged' = [staged EXCEPT ![w] = {}]
  /\ ctx' = [ctx EXCEPT ![w] = "parent"]
  /\ UNCHANGED <<tables, clock, job, dbErrors, handler, response, leaked, expiries, crashes>>

\* A panic in CompleteQuoteUpdate: the deferred function runs it once more, with
\* a fetch that fails and the context without a deadline.  Do has no deferred
\* ROLLBACK, so that a transaction stays open on its connection.  After the last
\* statement took effect nothing is left to panic.
Recover(w) ==
  /\ pc[w] # "idle"
  /\ ctx[w] \in {"live", "expired"}
  /\ panics < MaxPanics
  /\ panics' = panics + 1
  /\ leaked' = IF pc[w] \in InTx
               THEN leaked \cup {[at |-> pc[w], job |-> job[w], staged |-> staged[w]]}
               ELSE leaked
  /\ pc' = [pc EXCEPT ![w] = "fail"]
  /\ quote' = [quote EXCEPT ![w] = NoQuote]
  /\ staged' = [staged EXCEPT ![w] = {}]
  /\ ctx' = [ctx EXCEPT ![w] = "parent"]
  /\ UNCHANGED <<tables, clock, job, dbErrors, handler, response, bus, expiries, crashes>>

\* A statement that waits for a row of a transaction nobody will end.
LockedOut(w) ==
  \E t \in leaked :
    \/ pc[w] = "history" /\ Conflicts(t.staged, MyRow(w))
    \/ pc[w] = "upsert" /\ t.at \in {"status", "commit"} /\ updates[t.job].pair = JobPair(w)
    \/ pc[w] \in {"fail", "status"} /\ t.at = "commit" /\ t.job = job[w]

\* processOne returns with CompleteQuoteUpdate.
LeaveContext(w) == ctx' = [ctx EXCEPT ![w] = IF pc'[w] = "idle" THEN "none" ELSE @]

\* Such a wait ends with the five seconds; a recovery has no deadline, and waits
\* for ever when its own transaction holds the row of its update.
WaitExpires(w) ==
  /\ ctx[w] = "live"
  /\ LockedOut(w)
  /\ ctx' = [ctx EXCEPT ![w] = "expired"]
  /\ UNCHANGED <<tables, clock, completion, dbErrors, handler, response, bus, leaked, faults>>

StuckRecovery(w) == ctx[w] = "parent" /\ LockedOut(w)

\* A step of CompleteQuoteUpdate under a context that is alive.
WorkStep(w) ==
  /\ ctx[w] # "expired"
  /\ ~ LockedOut(w)
  /\ CompletionStep(w)
  /\ LeaveContext(w)
  /\ UNCHANGED <<handler, response, bus, leaked, faults>>

WorkFault(w) ==
  /\ ctx[w] # "expired"
  /\ CompletionFault(w)
  /\ LeaveContext(w)
  /\ UNCHANGED <<handler, response, bus, leaked, faults>>

\* The same under an expired context: the fetch may still answer, but every
\* statement fails, the failure statement and the COMMIT included.
ExpiredStep(w) ==
  /\ ctx[w] = "expired"
  /\ \/ FetchOk(w)
     \/ FetchErr(w)
     \/ Abandon(w, {"fail", "begin"} \cup InTx) /\ UNCHANGED dbErrors
  /\ LeaveContext(w)
  /\ UNCHANGED <<handler, response, bus, leaked, faults>>

----------------------------------------------------------------------------

\* The API process dies and is started again: nothing but the tables is left.
Crash ==
  /\ crashes < MaxCrashes
  /\ crashes' = crashes + 1
  /\ handler' = [j \in Jobs |-> IF handler[j] \in WithHandler THEN "lost" ELSE handler[j]]
  /\ bus' = <<>>
  /\ leaked' = {}
  /\ ctx' = [w \in Workers |-> "none"]
  /\ pc' = [w \in Workers |-> "idle"]
  /\ job' = [w \in Workers |-> NoJob]
  /\ quote' = [w \in Workers |-> NoQuote]
  /\ staged' = [w \in Workers |-> {}]
  /\ UNCHANGED <<tables, clock, dbErrors, response, expiries, panics>>

Provider == Tick /\ UNCHANGED chan

\* Nothing is left to do: the workers wait in their select, or for ever in a
\* recovery.
Idle ==
  /\ \A j \in Jobs : handler[j] \notin {"none"} \cup WithHandler
  /\ \A w \in Workers : (pc[w] = "idle" /\ bus = <<>>) \/ StuckRecovery(w)
  /\ UNCHANGED vars

Next ==
  \/ \E j \in Jobs : \/ \E p \in Pairs : Insert(j, p) \/ InsertError(j, p)
                     \/ Accept(j) \/ Send(j) \/ StartTimer(j) \/ QueueFull(j)
  \/ \E w \in Workers : \/ Receive(w) \/ Expire(w) \/ WaitExpires(w) \/ Recover(w)
                        \/ WorkStep(w) \/ WorkFault(w) \/ ExpiredStep(w)
  \/ Crash \/ Provider \/ Idle

Spec == Init /\ [][Next]_vars

\* Handlers and worker goroutines run: timers fire, fetches and statements
\* return.  Requests, faults, deadlines and panics are never forced.
HandlerStep(j) == Accept(j) \/ Send(j) \/ StartTimer(j) \/ QueueFull(j)
WorkerStep(w) == Receive(w) \/ WaitExpires(w) \/ WorkStep(w) \/ ExpiredStep(w)

FairSpec ==
  /\ Spec
  /\ \A j \in Jobs : WF_vars(HandlerStep(j))
  /\ \A w \in Workers : WF_vars(WorkerStep(w))

----------------------------------------------------------------------------
(* Safety. *)

OnBus(j) == \E i \in DOMAIN bus : bus[i] = j
Held(j) == OnBus(j) \/ \E w \in Workers : job[w] = j
Dropped == {j \in Jobs : /\ updates[j].status = "queued"
                         /\ handler[j] \notin WithHandler
                         /\ ~ Held(j)}

\* An accepted update is delivered to one worker, once: it is never on the
\* channel twice, with two workers, or on the channel after it was received.
DeliveredOnce ==
  /\ \A a, b \in DOMAIN bus : bus[a] = bus[b] => a = b
  /\ \A w \in Workers : job[w] # NoJob => ~ OnBus(job[w])
  /\ \A v, w \in Workers : v # w /\ job[v] # NoJob => job[v] # job[w]
  /\ \A j \in Jobs : handler[j] # "sent" => ~ Held(j)

\* Nothing reads queued rows in this mode: an update whose message is gone
\* stays queued, over restarts too.
DroppedStays ==
  [][\A j \in Dropped : updates'[j] = updates[j] /\ j \in Dropped']_vars

----------------------------------------------------------------------------
(* What the documents say of this mode; runs refute these two. *)

\* docs/DESIGN_DECISIONS.md: "Provider failures are surfaced as job errors" -
\* when the fetch has failed, processOne returns with the update failed.
FetchErrorRecorded ==
  [][\A w \in Workers :
       pc[w] = "fail" /\ pc'[w] = "idle" /\ crashes' = crashes
         => updates'[job[w]].status = "failed"]_vars

\* README: the channel buffer is this mode's back-pressure - a client whose job
\* did not fit gets the 503 that the handler writes.
DispatchFailureReported ==
  \A j \in Jobs : handler[j] = "rejected" => response[j] = "503"

----------------------------------------------------------------------------
(* Liveness. *)

\* Every queued update is eventually finished or dropped, and it is dropped only
\* for a cause: the channel was full, a deadline expired, a statement failed, a
\* panic left a transaction open or the process died.  Nobody holds an update for
\* ever, but for a recovery that waits for the row its own transaction locked.
EveryJobCompletesOrIsDropped ==
  \A j \in Jobs : updates[j].status = "queued" ~>
    \/ updates[j].status \in Terminal
    \/ j \in Dropped /\ \/ handler[j] = "rejected"
                        \/ expiries + dbErrors + crashes > 0
                        \/ leaked # {}
    \/ \E w \in Workers : StuckRecovery(w)
============================================================================
