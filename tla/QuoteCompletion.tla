-------------------------- MODULE QuoteCompletion --------------------------
(***************************************************************************)
(* CompleteQuoteUpdate of internal/application/service.go, run by a set of *)
(* processes on one database: fetch a quote outside of any transaction,    *)
(* then record a failure in one statement or the result in a transaction   *)
(* of three statements.  A process is between two of its statements at     *)
(* pc[p]; what its open transaction has written is private until COMMIT    *)
(* and its row locks make others wait.                                     *)
(***************************************************************************)
EXTENDS QuoteTables

CONSTANTS Procs,         \* processes that complete updates
          MaxDbErrors    \* bound on failed statements and commits

ASSUME DbErrorsAssumption == MaxDbErrors \in Nat

VARIABLES updates, quotes, history,   \* the committed tables
          clock,                      \* the provider's current timestamp
          pc, job, quote, staged,     \* per process: next statement, updateID,
                                      \* q.UpdatedAt, uncommitted history rows
          dbErrors                    \* database errors so far

tables == <<updates, quotes, history>>
completion == <<pc, job, quote, staged>>

Labels == {"idle", "fetch", "fail", "begin", "history", "upsert", "status", "commit"}
InTx == {"history", "upsert", "status", "commit"}
Appended == {"upsert", "status", "commit"}

CompletionTypeOK ==
  /\ updates \in UpdatesTable
  /\ quotes \in QuotesTable
  /\ history \subseteq HistoryRow
  /\ clock \in Times
  /\ pc \in [Procs -> Labels]
  /\ job \in [Procs -> Jobs \cup {NoJob}]
  /\ quote \in [Procs -> Times \cup {NoQuote}]
  /\ staged \in [Procs -> SUBSET HistoryRow]
  /\ dbErrors \in 0..MaxDbErrors

CompletionInit ==
  /\ updates = [j \in Jobs |-> NoRow]
  /\ quotes = [p \in Pairs |-> NoQuote]
  /\ history = {}
  /\ clock = 1
  /\ pc = [p \in Procs |-> "idle"]
  /\ job = [p \in Procs |-> NoJob]
  /\ quote = [p \in Procs |-> NoQuote]
  /\ staged = [p \in Procs |-> {}]
  /\ dbErrors = 0

Goto(p, from, to) == pc[p] = from /\ pc' = [pc EXCEPT ![p] = to]

\* CompleteQuoteUpdate returns, or its process dies: the locals are gone and
\* PostgreSQL drops an open transaction with what it staged.
Reset(p) ==
  /\ pc' = [pc EXCEPT ![p] = "idle"]
  /\ job' = [job EXCEPT ![p] = NoJob]
  /\ quote' = [quote EXCEPT ![p] = NoQuote]
  /\ staged' = [staged EXCEPT ![p] = {}]

DbError == dbErrors < MaxDbErrors /\ dbErrors' = dbErrors + 1

\* q.Pair: the providers and the rate server answer with the pair they are asked
\* for, which is that of the update's row.
JobPair(p) == updates[job[p]].pair

\* The history row that CompleteQuoteUpdate appends.
MyRow(p) == [pair |-> JobPair(p), quoted_at |-> quote[p], update_id |-> job[p]]

----------------------------------------------------------------------------
(* Row locks: what an open transaction of another process holds. *)

HistoryKeyFree(p) == \A o \in Procs \ {p} : ~ Conflicts(staged[o], MyRow(p))

QuoteRowFree(p) ==
  \A o \in Procs \ {p} : ~ (pc[o] \in {"status", "commit"} /\ JobPair(o) = JobPair(p))

JobRowFree(p) == \A o \in Procs \ {p} : ~ (pc[o] = "commit" /\ job[o] = job[p])

----------------------------------------------------------------------------

\* fetch(ctx): the provider answers with the rate of the moment, or an error.
FetchOk(p) ==
  /\ Goto(p, "fetch", "begin")
  /\ quote' = [quote EXCEPT ![p] = clock]
  /\ UNCHANGED <<tables, clock, job, staged, dbErrors>>

\* Mutant of FetchErr: the early return is missing and the zero quote goes on.
FetchErrIgnored(p) ==
  /\ Goto(p, "fetch", "begin")
  /\ UNCHANGED <<tables, clock, job, quote, staged, dbErrors>>

FetchErr(p) ==
  /\ Goto(p, "fetch", "fail")
  /\ UNCHANGED <<tables, clock, job, quote, staged, dbErrors>>

\* Mutant of MarkFailed: the update is put back in the queue.
MarkFailedRequeue(p) ==
  /\ pc[p] = "fail"
  /\ JobRowFree(p)
  /\ updates' = UpdateStatus(updates, job[p], "queued", "msg")
  /\ Reset(p)
  /\ UNCHANGED <<quotes, history, clock, dbErrors>>

\* _ = UpdateStatus(ctx, updateID, failed, &msg); return err
MarkFailed(p) ==
  /\ pc[p] = "fail"
  /\ JobRowFree(p)
  /\ updates' = UpdateStatus(updates, job[p], "failed", "msg")
  /\ Reset(p)
  /\ UNCHANGED <<quotes, history, clock, dbErrors>>

\* A statement fails: CompleteQuoteUpdate returns with nothing written.
Abandon(p, labels) ==
  /\ pc[p] \in labels
  /\ Reset(p)
  /\ UNCHANGED <<tables, clock>>

\* The error of the failure statement itself is discarded.
MarkFailedError(p) == Abandon(p, {"fail"}) /\ DbError

BeginTx(p) ==
  /\ Goto(p, "begin", "history")
  /\ UNCHANGED <<tables, clock, job, quote, staged, dbErrors>>

\* Mutant of AppendHistory: the repository runs it on the pool, not on the
\* transaction of the context, so it is visible at once.
AppendHistoryOnPool(p) ==
  /\ Goto(p, "history", "upsert")
  /\ history' = history \cup InsertedRows(history, MyRow(p))
  /\ UNCHANGED <<updates, quotes, clock, job, quote, staged, dbErrors>>

\* Waits for a transaction that has inserted the same key, then inserts or
\* does nothing.
AppendHistory(p) ==
  /\ Goto(p, "history", "upsert")
  /\ HistoryKeyFree(p)
  /\ staged' = [staged EXCEPT ![p] = InsertedRows(history, MyRow(p))]
  /\ UNCHANGED <<tables, clock, job, quote, dbErrors>>

\* Mutant of Upsert: as above, the quotes row is written outside of the
\* transaction.
UpsertOnPool(p) ==
  /\ Goto(p, "upsert", "status")
  /\ quotes' = [quotes EXCEPT ![JobPair(p)] = quote[p]]
  /\ UNCHANGED <<updates, history, clock, job, quote, staged, dbErrors>>

\* Unconditional ON CONFLICT (pair) DO UPDATE; holds the row until COMMIT.
Upsert(p) ==
  /\ Goto(p, "upsert", "status")
  /\ QuoteRowFree(p)
  /\ UNCHANGED <<tables, clock, job, quote, staged, dbErrors>>

\* Mutant of MarkDone: as above, done is visible before the COMMIT.
MarkDoneOnPool(p) ==
  /\ Goto(p, "status", "commit")
  /\ JobRowFree(p)
  /\ updates' = UpdateStatus(updates, job[p], "done", "null")
  /\ UNCHANGED <<quotes, history, clock, job, quote, staged, dbErrors>>

MarkDone(p) ==
  /\ Goto(p, "status", "commit")
  /\ JobRowFree(p)
  /\ UNCHANGED <<tables, clock, job, quote, staged, dbErrors>>

\* COMMIT publishes the three statements at once.  A commit whose answer is
\* lost returns an error that the workers only log: the same state change.
Commit(p) ==
  /\ pc[p] = "commit"
  /\ updates' = UpdateStatus(updates, job[p], "done", "null")
  /\ quotes' = [quotes EXCEPT ![JobPair(p)] = quote[p]]
  /\ history' = history \cup staged[p]
  /\ Reset(p)
  /\ UNCHANGED <<clock, dbErrors>>

\* BEGIN, a statement or COMMIT fails: rolled back, the error is returned and
\* nobody marks the update.
TxError(p) == Abandon(p, {"begin"} \cup InTx) /\ DbError

\* Time passes at the provider.
Tick ==
  /\ clock < MaxClock
  /\ clock' = clock + 1
  /\ UNCHANGED <<tables, completion, dbErrors>>

\* Every step of CompleteQuoteUpdate that is not a fault.
CompletionStep(p) ==
  \/ FetchOk(p) \/ FetchErr(p) \/ MarkFailed(p) \/ BeginTx(p)
  \/ AppendHistory(p) \/ Upsert(p) \/ MarkDone(p) \/ Commit(p)

CompletionFault(p) == MarkFailedError(p) \/ TxError(p)

----------------------------------------------------------------------------
(* What all worker modes promise: the lifecycle, and what follows from it. *)

LC == INSTANCE QuoteLifecycle WITH updates <- updates, quotes <- quotes, history <- history

\* The tables of a worker mode implement the lifecycle: CompleteQuoteUpdate is
\* all or nothing, and happens at most once for each update.
ImplementsLifecycle == LC!Spec

\* GET /quotes/updates/{id} is coherent: an error exactly on failed updates, a
\* completion time exactly on finished ones, a price only on done ones.
ReadCoherent == LC!ReadCoherent

\* GET /quotes/last only serves a quote that the history records, and a history
\* row belongs to a done update of its pair.
LastQuoteInHistory == LC!LastQuoteInHistory

\* No update is recorded twice in the history.
OneHistoryRowPerJob == LC!OneHistoryRowPerJob

\* What a client reads of a finished update never changes.
FinishedReadIsFinal == LC!FinishedReadIsFinal

\* A client that has read its update as done finds a last quote of the pair.
DoneThenLastQuote ==
  \A j \in Jobs :
    LET read == GetQuoteUpdate(updates, history, j)
    IN  read.code = 200 /\ read.body.status = "done"
          => GetLastQuote(quotes, updates[j].pair).code = 200

----------------------------------------------------------------------------
(* What the documents say of all worker modes; runs refute these. *)

\* docs/DESIGN_DECISIONS.md: "The quotes table holds only the latest quote per
\* pair" - no recorded quote of the pair is newer.
QuotesHoldLatest ==
  \A h \in history : quotes[h.pair] >= h.quoted_at

\* The router test reads a price from every done update, and the history
\* "records every retrieved FX rate".
DoneHasPrice ==
  \A j \in Jobs : updates[j].status = "done" =>
                    GetByID(updates, history, j).price # NoQuote

\* docs/DESIGN_DECISIONS.md, of all worker types: "For every job, the service
\* marks it as processing", then fetches and writes - an update that somebody
\* works on is in processing.
MarkedProcessing ==
  \A p \in Procs : pc[p] # "idle" => updates[job[p]].status = "processing"
============================================================================
