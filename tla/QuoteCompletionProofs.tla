----------------------- MODULE QuoteCompletionProofs -----------------------
(***************************************************************************)
(* CompleteQuoteUpdate implements the lifecycle, whichever worker mode     *)
(* calls it: as long as no two processes work on the same update, each of  *)
(* its steps preserves CompletionInv and is, on the tables, a Succeed, a   *)
(* Fail or a stutter of QuoteLifecycle.                                    *)
(***************************************************************************)
EXTENDS QuoteCompletion, TLAPS

LCP == INSTANCE QuoteLifecycleProofs

\* The locals of a process fit its place in CompleteQuoteUpdate.
LocalsOK ==
  \A p \in Procs :
    /\ pc[p] = "idle" <=> job[p] = NoJob
    /\ quote[p] # NoQuote <=> pc[p] \in {"begin"} \cup InTx
    /\ pc[p] \notin Appended => staged[p] = {}

\* A process works on an update that is not finished, and alone.
JobsOpen ==
  /\ \A p \in Procs : pc[p] # "idle" => LC!Unfinished(job[p])
  /\ \A p, o \in Procs : p # o /\ pc[p] # "idle" => job[p] # job[o]

\* An open transaction has staged what its INSERT would still do at COMMIT:
\* no other transaction can have inserted the key meanwhile.
StagedOK ==
  /\ \A p \in Procs : pc[p] \in Appended => staged[p] = InsertedRows(history, MyRow(p))
  /\ \A p, o \in Procs : p # o =>
       \A r \in staged[p], s \in staged[o] : ~ SameKey(r, s)

CompletionInv == CompletionTypeOK /\ LocalsOK /\ JobsOpen /\ StagedOK

----------------------------------------------------------------------------

\* An update whose status is one of the CHECK constraint has all its columns.
LEMMA RowPresent ==
  ASSUME NEW u \in UpdatesTable, NEW j \in Jobs, u[j].status \in Status
  PROVE  u[j] # NoRow /\ u[j] \in UpdateRow
BY DEF UpdatesTable, NoRow, Status, Terminal

\* UpdateStatus writes one row and keeps the table well-formed.
LEMMA UpdateStatusRow ==
  ASSUME NEW u \in UpdatesTable, NEW j \in Jobs, u[j] \in UpdateRow,
         NEW st \in Status, NEW msg \in {"null", "msg"}
  PROVE  /\ UpdateStatus(u, j, st, msg) \in UpdatesTable
         /\ UpdateStatus(u, j, st, msg)[j] = WithStatus(u[j], st, msg)
         /\ \A i \in Jobs : i # j => UpdateStatus(u, j, st, msg)[i] = u[i]
<1>1. WithStatus(u[j], st, msg) \in UpdateRow
  BY DEF WithStatus, UpdateRow, Terminal
<1> QED BY <1>1 DEF UpdateStatus, UpdatesTable

\* Facts about a process inside CompleteQuoteUpdate.
LEMMA BusyProc ==
  ASSUME CompletionInv, NEW p \in Procs, pc[p] # "idle"
  PROVE  /\ job[p] \in Jobs
         /\ updates[job[p]] \in UpdateRow
         /\ updates[job[p]] # NoRow
         /\ JobPair(p) \in Pairs
<1>1. job[p] \in Jobs
  BY DEF CompletionInv, CompletionTypeOK, LocalsOK
<1>2. updates[job[p]] \in UpdateRow /\ updates[job[p]] # NoRow
  BY <1>1, RowPresent
  DEF CompletionInv, JobsOpen, LC!Unfinished, CompletionTypeOK, Status
<1> QED BY <1>1, <1>2 DEF JobPair, UpdateRow

\* The statements of the abstract module are those of this one.
LEMMA SameStatements ==
  ASSUME NEW u, NEW j, NEW st, NEW msg, NEW H, NEW row
  PROVE  /\ LC!UpdateStatus(u, j, st, msg) = UpdateStatus(u, j, st, msg)
         /\ LC!InsertedRows(H, row) = InsertedRows(H, row)
BY DEF LC!UpdateStatus, LC!WithStatus, LC!Terminal, UpdateStatus, WithStatus, Terminal,
       LC!InsertedRows, LC!Conflicts, LC!SameKey, InsertedRows, Conflicts, SameKey

\* So is the INSERT of a queued update.
LEMMA SameInsert ==
  ASSUME NEW p
  PROVE  LC!QueuedRow(p) = QueuedRow(p) /\ LC!NoRow = NoRow
BY DEF LC!QueuedRow, QueuedRow, LC!NoRow, NoRow

\* A step that leaves the completing processes and the history alone, and
\* neither finishes nor moves an update they work on, keeps the invariant.
LEMMA CompletionFrame ==
  ASSUME CompletionInv, UNCHANGED <<quotes, history, clock, completion>>,
         updates' \in UpdatesTable, dbErrors' \in 0..MaxDbErrors,
         \A p \in Procs : pc[p] # "idle" =>
           /\ updates'[job[p]].pair = updates[job[p]].pair
           /\ updates'[job[p]].status \in {"queued", "processing"}
  PROVE  CompletionInv'
<1> USE DEF CompletionInv, completion
<1>1. CompletionTypeOK'
  BY DEF CompletionTypeOK
<1>2. LocalsOK'
  BY DEF LocalsOK
<1>3. JobsOpen'
  BY DEF JobsOpen, LC!Unfinished
<1>4. \A p \in Procs : pc[p] \in Appended => MyRow(p)' = MyRow(p)
  BY DEF MyRow, JobPair, Appended
<1>5. StagedOK'
  BY <1>4 DEF StagedOK
<1> QED BY <1>1, <1>2, <1>3, <1>5

\* In particular a step that leaves all of that alone.
LEMMA FrameInv ==
  ASSUME CompletionInv, UNCHANGED <<tables, clock, completion, dbErrors>>
  PROVE  CompletionInv'
BY CompletionFrame DEF CompletionInv, CompletionTypeOK, JobsOpen, LC!Unfinished, tables

\* A process that starts with an update that nobody works on.
LEMMA StartInv ==
  ASSUME CompletionInv, NEW p \in Procs, NEW j \in Jobs,
         pc[p] = "idle", pc' = [pc EXCEPT ![p] = "fetch"], job' = [job EXCEPT ![p] = j],
         \A o \in Procs : job[o] # j,
         updates[j].status \in {"queued", "processing"},
         UNCHANGED <<tables, clock, quote, staged, dbErrors>>
  PROVE  CompletionInv'
<1> USE DEF CompletionInv, tables
<1>1. \A o \in Procs \ {p} : pc'[o] = pc[o] /\ job'[o] = job[o]
  BY DEF CompletionTypeOK
<1>2. pc'[p] = "fetch" /\ job'[p] = j
  BY DEF CompletionTypeOK
<1>3. CompletionTypeOK'
  BY DEF CompletionTypeOK, Labels
<1>4. LocalsOK'
  BY <1>1, <1>2, JobsAssumption DEF LocalsOK, Appended, InTx, NoJob
<1>5. JobsOpen'
  BY <1>1, <1>2 DEF JobsOpen, LC!Unfinished
<1>6. \A o \in Procs : pc'[o] \in Appended => pc[o] \in Appended /\ MyRow(o)' = MyRow(o)
  BY <1>1, <1>2 DEF MyRow, JobPair, Appended
<1>7. StagedOK'
  BY <1>6 DEF StagedOK
<1> QED BY <1>3, <1>4, <1>5, <1>7

\* All processes die at once, and with them what they had staged.
LEMMA AllResetInv ==
  ASSUME CompletionInv, UNCHANGED <<tables, clock, dbErrors>>,
         pc' = [p \in Procs |-> "idle"], job' = [p \in Procs |-> NoJob],
         quote' = [p \in Procs |-> NoQuote], staged' = [p \in Procs |-> {}]
  PROVE  CompletionInv'
<1> USE DEF CompletionInv, tables
<1>1. CompletionTypeOK'
  BY DEF CompletionTypeOK, Labels
<1>2. LocalsOK' /\ JobsOpen'
  BY DEF LocalsOK, JobsOpen, InTx, Appended
<1>3. StagedOK'
  BY DEF StagedOK, Appended
<1> QED BY <1>1, <1>2, <1>3

\* A process that returns from CompleteQuoteUpdate, or dies in it.
LEMMA ResetInv ==
  ASSUME CompletionInv, NEW p \in Procs, Reset(p), UNCHANGED <<tables, clock>>,
         dbErrors' \in 0..MaxDbErrors
  PROVE  CompletionInv'
<1> USE DEF CompletionInv, Reset, tables
<1>1. CompletionTypeOK'
  BY DEF CompletionTypeOK, Labels
<1>2. LocalsOK'
  BY DEF LocalsOK, CompletionTypeOK, Appended, InTx
<1>3. JobsOpen'
  BY DEF JobsOpen, LC!Unfinished, CompletionTypeOK, LocalsOK
<1>4. \A o \in Procs \ {p} : /\ pc'[o] = pc[o] /\ staged'[o] = staged[o]
                             /\ MyRow(o)' = MyRow(o)
  BY DEF MyRow, JobPair, CompletionTypeOK
<1>5. pc'[p] = "idle" /\ staged'[p] = {}
  BY DEF CompletionTypeOK
<1>6. StagedOK'
  BY <1>4, <1>5 DEF StagedOK, Appended
<1> QED BY <1>1, <1>2, <1>3, <1>6

\* Steps between two statements that write nothing: pc moves, and FetchOk
\* notes the quote.
LEMMA AdvanceInv ==
  ASSUME CompletionInv, NEW p \in Procs,
         FetchOk(p) \/ FetchErr(p) \/ BeginTx(p) \/ Upsert(p) \/ MarkDone(p)
  PROVE  CompletionInv' /\ UNCHANGED tables
<1> USE DEF CompletionInv, tables, Goto, FetchOk, FetchErr, BeginTx, Upsert, MarkDone
<1>1. CompletionTypeOK'
  BY DEF CompletionTypeOK, Labels
<1>2. LocalsOK'
  BY DEF LocalsOK, CompletionTypeOK, Appended, InTx, Times, NoQuote
<1>3. JobsOpen'
  BY DEF JobsOpen, LC!Unfinished, CompletionTypeOK
<1>4. \A o \in Procs : /\ pc'[o] \in Appended <=> pc[o] \in Appended
                       /\ staged'[o] = staged[o]
  BY DEF Appended, CompletionTypeOK
<1>5. \A o \in Procs : pc[o] \in Appended => MyRow(o)' = MyRow(o)
  BY DEF MyRow, JobPair, CompletionTypeOK, Appended
<1>6. StagedOK'
  BY <1>4, <1>5 DEF StagedOK
<1> QED BY <1>1, <1>2, <1>3, <1>6

\* AppendHistory stages the row unless its key is recorded or staged.
LEMMA AppendHistoryInv ==
  ASSUME CompletionInv, NEW p \in Procs, AppendHistory(p)
  PROVE  CompletionInv' /\ UNCHANGED tables
<1> USE DEF CompletionInv, tables
<1>1. pc[p] = "history" /\ pc' = [pc EXCEPT ![p] = "upsert"]
  BY DEF AppendHistory, Goto
<1>2. /\ staged' = [staged EXCEPT ![p] = InsertedRows(history, MyRow(p))]
      /\ UNCHANGED <<updates, quotes, history, clock, job, quote, dbErrors>>
  BY DEF AppendHistory
<1>3. MyRow(p) \in HistoryRow
  BY <1>1, BusyProc DEF MyRow, HistoryRow, CompletionTypeOK, LocalsOK, InTx, Labels
<1>4. InsertedRows(history, MyRow(p)) \subseteq {MyRow(p)}
  BY DEF InsertedRows
<1>5. CompletionTypeOK'
  BY <1>1, <1>2, <1>3, <1>4 DEF CompletionTypeOK, Labels
<1>6. LocalsOK'
  BY <1>1, <1>2 DEF LocalsOK, CompletionTypeOK, Appended, InTx
<1>7. JobsOpen'
  BY <1>1, <1>2 DEF JobsOpen, LC!Unfinished, CompletionTypeOK
<1>8. \A o \in Procs : MyRow(o)' = MyRow(o)
  BY <1>2 DEF MyRow, JobPair
<1>9. \A o \in Procs \ {p} : \A s \in staged[o] : ~ SameKey(s, MyRow(p))
  BY DEF AppendHistory, HistoryKeyFree, Conflicts
<1>10. StagedOK'
  <2>1. \A o \in Procs : pc'[o] \in Appended => staged'[o] = InsertedRows(history', MyRow(o)')
    BY <1>1, <1>2, <1>8 DEF StagedOK, CompletionTypeOK
  <2>2. ASSUME NEW o \in Procs, NEW q \in Procs, o # q,
               NEW r \in staged'[o], NEW s \in staged'[q]
        PROVE  ~ SameKey(r, s)
    <3>1. CASE o = p
      BY <1>2, <1>4, <1>9, <2>2, <3>1 DEF SameKey, CompletionTypeOK
    <3>2. CASE q = p
      BY <1>2, <1>4, <1>9, <2>2, <3>2 DEF SameKey, CompletionTypeOK
    <3>3. CASE o # p /\ q # p
      BY <1>2, <2>2, <3>3 DEF StagedOK, CompletionTypeOK
    <3> QED BY <3>1, <3>2, <3>3
  <2> QED BY <2>1, <2>2 DEF StagedOK
<1> QED BY <1>2, <1>5, <1>6, <1>7, <1>10

\* The failure statement is a Fail of the lifecycle.
LEMMA MarkFailedInv ==
  ASSUME CompletionInv, NEW p \in Procs, MarkFailed(p)
  PROVE  CompletionInv' /\ LC!Fail(job[p])
<1> USE DEF CompletionInv
<1>1. pc[p] # "idle" /\ Reset(p) /\ UNCHANGED <<quotes, history, clock, dbErrors>>
  BY DEF MarkFailed
<1>2. job[p] \in Jobs /\ updates[job[p]] \in UpdateRow
  BY <1>1, BusyProc
<1>3. /\ updates' \in UpdatesTable
      /\ updates'[job[p]] = WithStatus(updates[job[p]], "failed", "msg")
      /\ \A i \in Jobs : i # job[p] => updates'[i] = updates[i]
  BY <1>2, UpdateStatusRow DEF MarkFailed, CompletionTypeOK, Status, Terminal
<1>4. LC!Fail(job[p])
  BY <1>1, SameStatements DEF LC!Fail, MarkFailed, JobsOpen
<1>5. CompletionTypeOK'
  BY <1>1, <1>3 DEF CompletionTypeOK, Reset, Labels
<1>6. LocalsOK'
  BY <1>1 DEF LocalsOK, CompletionTypeOK, Appended, InTx, Reset
<1>7. \A o \in Procs \ {p} : /\ pc'[o] = pc[o] /\ job'[o] = job[o]
                             /\ quote'[o] = quote[o] /\ staged'[o] = staged[o]
  BY <1>1 DEF Reset, CompletionTypeOK
<1>8. pc'[p] = "idle" /\ job'[p] = NoJob /\ staged'[p] = {}
  BY <1>1 DEF Reset, CompletionTypeOK
<1>9. \A o \in Procs \ {p} : pc[o] # "idle" => updates'[job[o]] = updates[job[o]]
  BY <1>1, <1>3, BusyProc DEF JobsOpen
<1>10. JobsOpen'
  BY <1>7, <1>8, <1>9 DEF JobsOpen, LC!Unfinished, LocalsOK
<1>11. \A o \in Procs \ {p} : pc[o] \in Appended => MyRow(o)' = MyRow(o)
  BY <1>7, <1>9 DEF MyRow, JobPair, Appended
<1>12. StagedOK'
  BY <1>1, <1>7, <1>8, <1>11 DEF StagedOK, Appended
<1> QED BY <1>4, <1>5, <1>6, <1>10, <1>12

\* COMMIT is a Succeed of the lifecycle: what the transaction staged is what
\* its INSERT adds at this moment.
LEMMA CommitInv ==
  ASSUME CompletionInv, NEW p \in Procs, Commit(p)
  PROVE  CompletionInv' /\ quote[p] \in Times /\ LC!Succeed(job[p], quote[p])
<1> USE DEF CompletionInv
<1>1. /\ pc[p] = "commit" /\ Reset(p) /\ UNCHANGED <<clock, dbErrors>>
      /\ quotes' = [quotes EXCEPT ![JobPair(p)] = quote[p]]
      /\ history' = history \cup staged[p]
  BY DEF Commit
<1>2. job[p] \in Jobs /\ updates[job[p]] \in UpdateRow /\ JobPair(p) \in Pairs
  BY <1>1, BusyProc
<1>3. /\ updates' \in UpdatesTable
      /\ updates'[job[p]] = WithStatus(updates[job[p]], "done", "null")
      /\ \A i \in Jobs : i # job[p] => updates'[i] = updates[i]
  BY <1>2, UpdateStatusRow DEF Commit, CompletionTypeOK, Status, Terminal
<1>4. quote[p] \in Times /\ staged[p] = InsertedRows(history, MyRow(p))
  BY <1>1 DEF LocalsOK, CompletionTypeOK, StagedOK, InTx, Appended
<1>5. LC!Succeed(job[p], quote[p])
  BY <1>1, <1>4, SameStatements DEF LC!Succeed, Commit, JobsOpen, MyRow, JobPair
<1>6. CompletionTypeOK'
  BY <1>1, <1>2, <1>3, <1>4 DEF CompletionTypeOK, Reset, Labels, QuotesTable
<1>7. LocalsOK'
  BY <1>1 DEF LocalsOK, CompletionTypeOK, Appended, InTx, Reset
<1>8. \A o \in Procs \ {p} : /\ pc'[o] = pc[o] /\ job'[o] = job[o]
                             /\ quote'[o] = quote[o] /\ staged'[o] = staged[o]
  BY <1>1 DEF Reset, CompletionTypeOK
<1>9. pc'[p] = "idle" /\ job'[p] = NoJob /\ staged'[p] = {}
  BY <1>1 DEF Reset, CompletionTypeOK
<1>10. \A o \in Procs \ {p} : pc[o] # "idle" => updates'[job[o]] = updates[job[o]]
  BY <1>1, <1>3, BusyProc DEF JobsOpen
<1>11. JobsOpen'
  BY <1>8, <1>9, <1>10 DEF JobsOpen, LC!Unfinished, LocalsOK
<1>12. \A o \in Procs \ {p} : pc[o] \in Appended => MyRow(o)' = MyRow(o)
  BY <1>8, <1>10 DEF MyRow, JobPair, Appended
<1>13. ASSUME NEW o \in Procs \ {p}, pc[o] \in Appended
       PROVE  staged[o] = InsertedRows(history', MyRow(o))
  <2>1. staged[o] = InsertedRows(history, MyRow(o))
    BY <1>13 DEF StagedOK
  <2>2. CASE Conflicts(history, MyRow(o))
    BY <1>1, <2>1, <2>2 DEF InsertedRows, Conflicts
  <2>3. CASE ~ Conflicts(history, MyRow(o))
    <3>1. staged[o] = {MyRow(o)}
      BY <2>1, <2>3 DEF InsertedRows
    <3>2. ~ Conflicts(staged[p], MyRow(o))
      BY <3>1 DEF StagedOK, Conflicts
    <3> QED BY <1>1, <2>3, <3>1, <3>2 DEF InsertedRows, Conflicts
  <2> QED BY <2>2, <2>3
<1>14. StagedOK'
  BY <1>8, <1>9, <1>12, <1>13 DEF StagedOK, Appended
<1> QED BY <1>4, <1>5, <1>6, <1>7, <1>11, <1>14

----------------------------------------------------------------------------

\* Nobody completes anything at first, and the tables are empty.
LEMMA CompletionInitInv ==
  ASSUME CompletionInit
  PROVE  CompletionInv /\ LC!Init
<1> USE DEF CompletionInit
<1>1. CompletionTypeOK
  BY ClockAssumption, DbErrorsAssumption
  DEF CompletionTypeOK, UpdatesTable, QuotesTable, Labels, Times
<1>2. LocalsOK
  BY DEF LocalsOK, InTx
<1>3. JobsOpen /\ StagedOK
  BY DEF JobsOpen, StagedOK, Appended
<1>4. LC!Init
  BY DEF LC!Init, LC!NoRow, LC!NoQuote, NoRow, NoQuote
<1> QED BY <1>1, <1>2, <1>3, <1>4 DEF CompletionInv

\* The provider's clock moves.
LEMMA TickInv ==
  ASSUME CompletionInv, Tick
  PROVE  CompletionInv' /\ UNCHANGED tables
<1>1. clock' \in Times
  BY ClockAssumption DEF Tick, CompletionInv, CompletionTypeOK, Times
<1> QED BY <1>1 DEF Tick, CompletionInv, CompletionTypeOK, LocalsOK, JobsOpen, StagedOK,
                    LC!Unfinished, MyRow, JobPair, completion, tables

\* CompleteQuoteUpdate implements the lifecycle step by step: every statement,
\* every failing statement, whatever the other processes have in flight.
THEOREM CompletionImplementsLifecycle ==
  ASSUME CompletionInv, NEW p \in Procs, CompletionStep(p) \/ CompletionFault(p)
  PROVE  CompletionInv' /\ [LC!Next]_LC!vars
<1>1. CASE FetchOk(p) \/ FetchErr(p) \/ BeginTx(p) \/ Upsert(p) \/ MarkDone(p)
  BY <1>1, AdvanceInv DEF tables, LC!vars
<1>2. CASE AppendHistory(p)
  BY <1>2, AppendHistoryInv DEF tables, LC!vars
<1>3. CASE MarkFailed(p)
  <2>1. job[p] \in Jobs
    BY <1>3, BusyProc DEF MarkFailed
  <2> QED BY <1>3, <2>1, MarkFailedInv DEF LC!Next
<1>4. CASE Commit(p)
  <2>1. job[p] \in Jobs /\ CompletionInv' /\ quote[p] \in Times
        /\ LC!Succeed(job[p], quote[p])
    BY <1>4, BusyProc, CommitInv DEF Commit
  <2> QED BY <2>1 DEF LC!Next, LC!Times, Times
<1>5. CASE CompletionFault(p)
  <2>1. Reset(p) /\ UNCHANGED <<tables, clock>> /\ dbErrors' \in 0..MaxDbErrors
    BY <1>5, DbErrorsAssumption
    DEF CompletionFault, MarkFailedError, TxError, Abandon, DbError, CompletionInv, CompletionTypeOK
  <2> QED BY <2>1, ResetInv DEF tables, LC!vars
<1> QED BY <1>1, <1>2, <1>3, <1>4, <1>5 DEF CompletionStep

\* What such a step may touch: the locals of its process and the row of its
\* update, which it leaves alone or finishes.
LEMMA CompletionEffect ==
  ASSUME CompletionInv, NEW p \in Procs, CompletionStep(p) \/ CompletionFault(p)
  PROVE  /\ pc[p] # "idle"
         /\ \A o \in Procs \ {p} : pc'[o] = pc[o] /\ job'[o] = job[o]
         /\ pc'[p] # "idle" => job'[p] = job[p] /\ updates' = updates
         /\ \A i \in Jobs : i # job[p] => updates'[i] = updates[i]
         /\ updates' = updates \/ updates'[job[p]].status \in Terminal
<1> USE DEF CompletionInv, CompletionTypeOK, tables
<1>1. CASE FetchOk(p) \/ FetchErr(p) \/ BeginTx(p) \/ AppendHistory(p) \/ Upsert(p) \/ MarkDone(p)
  BY <1>1 DEF FetchOk, FetchErr, BeginTx, AppendHistory, Upsert, MarkDone, Goto
<1>2. CASE MarkFailed(p) \/ Commit(p)
  <2>1. pc[p] # "idle" /\ Reset(p)
    BY <1>2 DEF MarkFailed, Commit
  <2>2. job[p] \in Jobs /\ updates[job[p]] \in UpdateRow
    BY <2>1, BusyProc
  <2>3. PICK st \in Terminal, msg \in {"null", "msg"} : updates' = UpdateStatus(updates, job[p], st, msg)
    BY <1>2 DEF MarkFailed, Commit, Terminal
  <2>4. /\ updates'[job[p]] = WithStatus(updates[job[p]], st, msg)
        /\ \A i \in Jobs : i # job[p] => updates'[i] = updates[i]
    <3>1. updates \in UpdatesTable /\ st \in Status
      BY DEF Status
    <3> QED BY <2>2, <2>3, <3>1, UpdateStatusRow
  <2>5. updates'[job[p]].status \in Terminal
    BY <2>4 DEF WithStatus
  <2> QED BY <2>1, <2>4, <2>5 DEF Reset
<1>3. CASE CompletionFault(p)
  BY <1>3 DEF CompletionFault, MarkFailedError, TxError, Abandon, Reset, InTx
<1> QED BY <1>1, <1>2, <1>3 DEF CompletionStep

\* Without a fault, the job is in hand until its update is finished.
LEMMA CompletionStepEnds ==
  ASSUME CompletionInv, NEW p \in Procs, CompletionStep(p)
  PROVE  pc'[p] # "idle" \/ updates'[job[p]].status \in Terminal
<1> USE DEF CompletionInv, CompletionTypeOK
<1>1. CASE FetchOk(p) \/ FetchErr(p) \/ BeginTx(p) \/ AppendHistory(p) \/ Upsert(p) \/ MarkDone(p)
  BY <1>1 DEF FetchOk, FetchErr, BeginTx, AppendHistory, Upsert, MarkDone, Goto
<1>2. CASE MarkFailed(p) \/ Commit(p)
  <2>1. job[p] \in Jobs /\ updates \in UpdatesTable
    BY <1>2, BusyProc DEF MarkFailed, Commit
  <2>2. PICK st \in Terminal, msg \in {"null", "msg"} : updates' = UpdateStatus(updates, job[p], st, msg)
    BY <1>2 DEF MarkFailed, Commit, Terminal
  <2>3. updates'[job[p]].status = st
    BY <2>1, <2>2 DEF UpdateStatus, UpdatesTable, WithStatus
  <2> QED BY <2>2, <2>3
<1> QED BY <1>1, <1>2 DEF CompletionStep
----------------------------------------------------------------------------
(* What a worker mode inherits from the lifecycle, once it implements it. *)

\* The lifecycle as QuoteLifecycleProofs names it.
LEMMA SameLifecycle == ImplementsLifecycle => LCP!Spec
BY DEF ImplementsLifecycle, LC!Spec, LC!Init, LC!Next, LC!vars, LC!Request, LC!Claim, LC!Succeed,
       LC!Fail, LC!Unfinished, LC!NoRow, LC!NoQuote, LC!QueuedRow, LC!ClaimRows, LC!Claimed,
       LC!UpdateStatus, LC!WithStatus, LC!Terminal, LC!InsertedRows, LC!Conflicts, LC!SameKey, LC!Times,
       LCP!Spec, LCP!Init, LCP!Next, LCP!vars, LCP!Request, LCP!Claim, LCP!Succeed,
       LCP!Fail, LCP!Unfinished, LCP!NoRow, LCP!NoQuote, LCP!QueuedRow, LCP!ClaimRows, LCP!Claimed,
       LCP!UpdateStatus, LCP!WithStatus, LCP!Terminal, LCP!InsertedRows, LCP!Conflicts, LCP!SameKey, LCP!Times

\* Every state of a worker mode that implements the lifecycle: reads of an
\* update are coherent, the last quote of a pair is in the history, no update
\* is recorded twice, and a done update has a last quote.
LEMMA LifecycleReads ==
  ImplementsLifecycle =>
    []ReadCoherent /\ []LastQuoteInHistory /\ []OneHistoryRowPerJob /\ []DoneThenLastQuote
<1>1. Jobs \subseteq Nat \ {0} /\ MaxClock \in Nat \ {0}
  BY JobsAssumption, ClockAssumption
<1>2. LCP!Spec => []LCP!Inv
  BY <1>1, LCP!LifecycleInvariant
<1>3. LCP!Spec => []LCP!ReadCoherent
  BY <1>1, LCP!LifecycleReadCoherent
<1>4. LCP!ReadCoherent => ReadCoherent
  BY DEF ReadCoherent, LC!ReadCoherent, LC!NoRow, LC!NoQuote, LC!Terminal, LC!GetByID, LC!JobHistory,
         LCP!ReadCoherent, LCP!NoRow, LCP!NoQuote, LCP!Terminal, LCP!GetByID, LCP!JobHistory
<1>5. LCP!Inv => LastQuoteInHistory
  BY DEF LCP!Inv, LCP!LastQuoteInHistory, LCP!NoQuote, LastQuoteInHistory, LC!LastQuoteInHistory, LC!NoQuote
<1>6. LCP!Inv => OneHistoryRowPerJob
  BY DEF LCP!Inv, LCP!OneHistoryRowPerJob, LCP!SameKey, OneHistoryRowPerJob, LC!OneHistoryRowPerJob, LC!SameKey
<1>7. LCP!Inv => DoneThenLastQuote
  BY DEF LCP!Inv, LCP!DoneQuoted, LCP!NoQuote, DoneThenLastQuote, GetQuoteUpdate, GetByID, GetLastQuote,
         NotFound, Ok, NoQuote
<1> QED BY <1>2, <1>3, <1>4, <1>5, <1>6, <1>7, SameLifecycle, PTL

\* What is read of a finished update never changes.
LEMMA LifecycleFinal == ImplementsLifecycle => FinishedReadIsFinal
<1>1. Jobs \subseteq Nat \ {0} /\ MaxClock \in Nat \ {0}
  BY JobsAssumption, ClockAssumption
<1>2. LCP!Spec => LCP!FinishedReadIsFinal
  BY <1>1, LCP!LifecycleFinishedReadIsFinal
<1>3. LCP!FinishedReadIsFinal => FinishedReadIsFinal
  BY DEF FinishedReadIsFinal, LC!FinishedReadIsFinal, LC!vars, LC!Terminal, LC!GetByID, LC!JobHistory,
         LC!NoRow, LC!NoQuote,
         LCP!FinishedReadIsFinal, LCP!vars, LCP!Terminal, LCP!GetByID, LCP!JobHistory, LCP!NoRow, LCP!NoQuote
<1> QED BY <1>2, <1>3, SameLifecycle, PTL
============================================================================
