--------------------------- MODULE QuoteLifecycle ---------------------------
(***************************************************************************)
(* What every worker mode promises about the tables: a quote update is     *)
(* inserted queued, may be claimed, and is completed at most once, by one  *)
(* step that writes all three tables or by one that records an error.      *)
(* DbWorkers and ChanWorkers are shown to implement it.                    *)
(***************************************************************************)
EXTENDS QuoteTables

VARIABLES updates,    \* quote_updates
          quotes,     \* quotes
          history     \* quotes_history

vars == <<updates, quotes, history>>

Init ==
  /\ updates = [j \in Jobs |-> NoRow]
  /\ quotes = [p \in Pairs |-> NoQuote]
  /\ history = {}

Request(j, p) ==
  /\ updates[j] = NoRow
  /\ updates' = [updates EXCEPT ![j] = QueuedRow(p)]
  /\ UNCHANGED <<quotes, history>>

Claim(S) ==
  /\ \A j \in S : updates[j].status = "queued"
  /\ updates' = ClaimRows(updates, S)
  /\ UNCHANGED <<quotes, history>>

\* Chan and grpc workers complete a job straight from queued.
Unfinished(j) == updates[j].status \in {"queued", "processing"}

Succeed(j, at) ==
  LET row == [pair |-> updates[j].pair, quoted_at |-> at, update_id |-> j]
  IN  /\ Unfinished(j)
      /\ updates' = UpdateStatus(updates, j, "done", "null")
      /\ quotes' = [quotes EXCEPT ![updates[j].pair] = at]
      /\ history' = history \cup InsertedRows(history, row)

Fail(j) ==
  /\ Unfinished(j)
  /\ updates' = UpdateStatus(updates, j, "failed", "msg")
  /\ UNCHANGED <<quotes, history>>

Next ==
  \/ \E j \in Jobs, p \in Pairs : Request(j, p)
  \/ \E S \in SUBSET Jobs : Claim(S)
  \/ \E j \in Jobs : \/ \E at \in Times : Succeed(j, at)
                     \/ Fail(j)

Spec == Init /\ [][Next]_vars

----------------------------------------------------------------------------

TypeOK ==
  /\ updates \in UpdatesTable
  /\ quotes \in QuotesTable
  /\ history \subseteq HistoryRow

\* What a client of GET /quotes/updates/{id} sees is coherent: an error text
\* exactly on failed updates, a completion time exactly on finished ones, and
\* a price only on done ones (UpdateStatus and the transaction of
\* CompleteQuoteUpdate).
ReadCoherent ==
  \A j \in Jobs :
    LET row == updates[j]
        read == GetByID(updates, history, j)
    IN  row # NoRow =>
          /\ row.error = "msg" <=> row.status = "failed"
          /\ row.completed_at = "set" <=> row.status \in Terminal
          /\ read.price # NoQuote => row.status = "done"

\* GET /quotes/last never serves a quote that the history does not record, and
\* the history only records quotes of the right pair for done updates.
LastQuoteInHistory ==
  /\ \A p \in Pairs : quotes[p] # NoQuote =>
       \E h \in history : h.pair = p /\ h.quoted_at = quotes[p]
  /\ \A h \in history : /\ updates[h.update_id].status = "done"
                        /\ updates[h.update_id].pair = h.pair

\* The unique key of quotes_history, which the database enforces, and one row
\* at most per update, which only the single completion of a job ensures.
OneHistoryRowPerJob ==
  \A g, h \in history : g.update_id = h.update_id \/ SameKey(g, h) => g = h

\* Once an update is done or failed, what a client reads of it never changes:
\* no later worker, retry or concurrent job rewrites a finished update.
FinishedReadIsFinal ==
  [][\A j \in Jobs : updates[j].status \in Terminal =>
       GetByID(updates', history', j) = GetByID(updates, history, j)]_vars
============================================================================
