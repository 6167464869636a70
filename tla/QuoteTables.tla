---------------------------- MODULE QuoteTables ----------------------------
(***************************************************************************)
(* The three PostgreSQL tables of fxrates-service and the SQL statements   *)
(* internal/infrastructure/pg runs on them, as pure operators on table     *)
(* values.  Every statement is atomic; the modules that use this one say   *)
(* when it runs and what it waits for.                                     *)
(*                                                                         *)
(* Abstractions.  A job id also is its position in ORDER BY requested_at.  *)
(* A quote is known by its provider timestamp, so a price is "the one the  *)
(* provider quoted at that time".  An error text is "msg" or "null", a     *)
(* completion time "set" or "null".  Each deployed stack has a single      *)
(* history source ("db", "chan" or "grpc"), so the unique key (pair,       *)
(* quoted_at, source) is (pair, quoted_at) here.                           *)
(***************************************************************************)
EXTENDS Naturals, FiniteSets

CONSTANTS Jobs,       \* ids of the quote updates, numbered by requested_at
          Pairs,      \* currency pairs
          MaxClock    \* bound on the provider's timestamps

ASSUME JobsAssumption == Jobs \subseteq Nat \ {0}
ASSUME ClockAssumption == MaxClock \in Nat \ {0}

NoJob == 0
NoQuote == 0                \* no row in quotes, no fetched quote, a null price
Times == 1..MaxClock

----------------------------------------------------------------------------
(* Table quote_updates: NoRow, or a row per job. *)

Terminal == {"done", "failed"}
Status == {"queued", "processing"} \cup Terminal

UpdateRow == [status : Status, pair : Pairs,
              error : {"null", "msg"}, completed_at : {"null", "set"}]
NoRow == [status |-> "none"]

UpdatesTable == [Jobs -> UpdateRow \cup {NoRow}]

QueuedRow(p) == [status |-> "queued", pair |-> p,
                 error |-> "null", completed_at |-> "null"]

\* Mutant of WithStatus: completed_at is only written for done rows.
WithStatusDoneOnly(row, st, msg) ==
  [status |-> st, pair |-> row.pair, error |-> msg,
   completed_at |-> IF st = "done" THEN "set" ELSE row.completed_at]

\* The SET clause of UpdateStatus.
WithStatus(row, st, msg) ==
  [status |-> st, pair |-> row.pair, error |-> msg,
   completed_at |-> IF st \in Terminal THEN "set" ELSE row.completed_at]

UpdateStatus(updates, j, st, msg) ==
  [updates EXCEPT ![j] = WithStatus(updates[j], st, msg)]

\* The UPDATE of ClaimQueued: only the status column is written.
Claimed(row) == [row EXCEPT !.status = "processing"]

ClaimRows(updates, S) ==
  [j \in Jobs |-> IF j \in S THEN Claimed(updates[j]) ELSE updates[j]]

\* ORDER BY requested_at LIMIT k.
Oldest(k, S) == {j \in S : Cardinality({i \in S : i < j}) < k}

----------------------------------------------------------------------------
(* Tables quotes (NoQuote or the timestamp of the row) and quotes_history. *)

QuotesTable == [Pairs -> Times \cup {NoQuote}]
HistoryRow == [pair : Pairs, quoted_at : Times, update_id : Jobs]

SameKey(r, s) == r.pair = s.pair /\ r.quoted_at = s.quoted_at
Conflicts(history, row) == \E h \in history : SameKey(h, row)

\* The rows INSERT ... ON CONFLICT (pair, quoted_at, source) DO NOTHING adds.
InsertedRows(history, row) == IF Conflicts(history, row) THEN {} ELSE {row}

\* Mutant of JobHistory: the lateral join matches on the pair alone.
PairHistory(updates, history, j) == {h \in history : h.pair = updates[j].pair}

\* The lateral join of GetByID: WHERE update_id = u.id.
JobHistory(updates, history, j) == {h \in history : h.update_id = j}

\* What GET /quotes/updates/{id} reads: the row joined with the newest history
\* row carrying its id.  The price is named by the time it was quoted at,
\* updated_at by the column COALESCE takes it from.
GetByID(updates, history, j) ==
  LET mine == JobHistory(updates, history, j)
      last == CHOOSE h \in mine : \A g \in mine : g.quoted_at <= h.quoted_at
  IN  IF updates[j] = NoRow
      THEN NoRow
      ELSE [status |-> updates[j].status, error |-> updates[j].error,
            price |-> IF mine = {} THEN NoQuote ELSE last.quoted_at,
            updated_at |-> IF mine # {} THEN "quoted_at"
                           ELSE IF updates[j].completed_at = "set"
                           THEN "completed_at" ELSE "requested_at"]

----------------------------------------------------------------------------
(* The answers of the two GET handlers, for a well-formed id or pair and a  *)
(* database that answers.  Prices as numbers are left out.                   *)

NotFound == [code |-> 404]
Ok(body) == [code |-> 200, body |-> body]

GetQuoteUpdate(updates, history, j) ==
  LET read == GetByID(updates, history, j)
  IN  IF read = NoRow THEN NotFound ELSE Ok(read)

GetLastQuote(quotes, p) == IF quotes[p] = NoQuote THEN NotFound ELSE Ok(quotes[p])
============================================================================
