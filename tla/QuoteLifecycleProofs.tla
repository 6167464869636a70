------------------------ MODULE QuoteLifecycleProofs ------------------------
(***************************************************************************)
(* Invariants of the lifecycle specification, for every set of jobs and    *)
(* pairs and every bound on the provider's clock.  A worker mode that      *)
(* implements QuoteLifecycle inherits them.                                *)
(***************************************************************************)
EXTENDS QuoteLifecycle, TLAPS

\* The part of ReadCoherent that speaks of the row alone.
RowCoherent ==
  \A j \in Jobs : updates[j] # NoRow =>
    /\ updates[j].error = "msg" <=> updates[j].status = "failed"
    /\ updates[j].completed_at = "set" <=> updates[j].status \in Terminal

\* Whoever finished an update as done has left a last quote for its pair.
DoneQuoted ==
  \A j \in Jobs : updates[j].status = "done" => quotes[updates[j].pair] # NoQuote

\* The inductive invariant: a price is only read on done updates because only
\* a done update has a history row, which is part of LastQuoteInHistory.
Inv == TypeOK /\ RowCoherent /\ LastQuoteInHistory /\ OneHistoryRowPerJob /\ DoneQuoted

----------------------------------------------------------------------------
(* The SQL statements. *)

\* An update whose status is one of the CHECK constraint has all its columns.
LEMMA RowPresent ==
  ASSUME NEW u \in UpdatesTable, NEW j \in Jobs, u[j].status \in Status
  PROVE  u[j] # NoRow /\ u[j] \in UpdateRow
BY DEF UpdatesTable, NoRow, Status, Terminal

\* UpdateStatus writes one row and keeps the table well-formed.
LEMMA UpdateStatusRow ==
  ASSUME NEW u \in UpdatesTable, NEW j \in Jobs, u[j] \in UpdateRow,
         NEW st \in Status, NEW msg \in {"null", "msg"}
  PROVE  /\ UpdateStatus(u, j, st, msg) \in UpdatesTable
         /\ UpdateStatus(u, j, st, msg)[j] = WithStatus(u[j], st, msg)
         /\ \A i \in Jobs : i # j => UpdateStatus(u, j, st, msg)[i] = u[i]
<1>1. WithStatus(u[j], st, msg) \in UpdateRow
  BY DEF WithStatus, UpdateRow, Terminal
<1> QED
  BY <1>1 DEF UpdateStatus, UpdatesTable

\* A claim keeps all columns but the status.
LEMMA ClaimedRow ==
  ASSUME NEW row \in UpdateRow
  PROVE  /\ Claimed(row) \in UpdateRow
         /\ Claimed(row).status = "processing"
         /\ Claimed(row).pair = row.pair
         /\ Claimed(row).error = row.error
         /\ Claimed(row).completed_at = row.completed_at
BY DEF Claimed, UpdateRow, Status

\* The insert of a history row is typed and respects the unique key.
LEMMA InsertedRowsKey ==
  ASSUME NEW row \in HistoryRow, NEW H \in SUBSET HistoryRow
  PROVE  /\ InsertedRows(H, row) \subseteq {row}
         /\ \A g \in H, h \in InsertedRows(H, row) : ~ SameKey(g, h)
         /\ \E h \in H \cup InsertedRows(H, row) : SameKey(h, row)
<1>1. CASE Conflicts(H, row)
  BY <1>1 DEF InsertedRows, Conflicts
<1>2. CASE ~ Conflicts(H, row)
  BY <1>2 DEF InsertedRows, Conflicts, SameKey
<1> QED BY <1>1, <1>2

----------------------------------------------------------------------------

\* Empty tables satisfy it.
LEMMA InitInv == Init => Inv
BY DEF Init, Inv, TypeOK, RowCoherent, LastQuoteInHistory, OneHistoryRowPerJob, DoneQuoted,
       UpdatesTable, QuotesTable, NoRow

\* The INSERT of a queued update.
LEMMA RequestInv ==
  ASSUME Inv, NEW j \in Jobs, NEW p \in Pairs, Request(j, p)
  PROVE  Inv'
<1> USE DEF Inv, Request
<1>1. QueuedRow(p) \in UpdateRow
  BY DEF QueuedRow, UpdateRow, Status
<1>2. TypeOK'
  BY <1>1 DEF TypeOK, UpdatesTable
<1>3. /\ updates'[j] = QueuedRow(p)
      /\ \A i \in Jobs : i # j => updates'[i] = updates[i]
  BY DEF TypeOK, UpdatesTable
<1>4. RowCoherent'
  BY <1>3 DEF RowCoherent, QueuedRow, Terminal
<1>5. \A h \in history : h.update_id \in Jobs /\ h.update_id # j
  BY DEF TypeOK, LastQuoteInHistory, NoRow, HistoryRow
<1>6. LastQuoteInHistory'
  BY <1>3, <1>5 DEF LastQuoteInHistory
<1>7. OneHistoryRowPerJob'
  BY DEF OneHistoryRowPerJob
<1>8. DoneQuoted'
  BY <1>3 DEF DoneQuoted, QueuedRow
<1> QED BY <1>2, <1>4, <1>6, <1>7, <1>8

\* A claim of queued updates.
LEMMA ClaimInv ==
  ASSUME Inv, NEW S \in SUBSET Jobs, Claim(S)
  PROVE  Inv'
<1> USE DEF Inv, Claim
<1>1. \A i \in S : updates[i] \in UpdateRow /\ updates[i] # NoRow
  BY RowPresent DEF TypeOK, Status
<1>2. /\ \A i \in S : updates'[i] = Claimed(updates[i])
      /\ \A i \in Jobs \ S : updates'[i] = updates[i]
  BY DEF ClaimRows
<1>3. \A i \in Jobs : updates'[i] \in UpdateRow \cup {NoRow}
  <2>1. \A i \in S : updates'[i] \in UpdateRow
    BY <1>1, <1>2, ClaimedRow
  <2> QED BY <1>2, <2>1 DEF TypeOK, UpdatesTable
<1>4. TypeOK'
  BY <1>3 DEF TypeOK, UpdatesTable, ClaimRows
<1>5. RowCoherent'
  <2> SUFFICES ASSUME NEW i \in Jobs, updates'[i] # NoRow
               PROVE  /\ updates'[i].error = "msg" <=> updates'[i].status = "failed"
                      /\ updates'[i].completed_at = "set" <=> updates'[i].status \in Terminal
    BY DEF RowCoherent
  <2>1. CASE i \in S
    BY <1>1, <1>2, <2>1, ClaimedRow DEF RowCoherent, Terminal
  <2>2. CASE i \notin S
    BY <1>2, <2>2 DEF RowCoherent
  <2> QED BY <2>1, <2>2
<1>6. \A h \in history : h.update_id \in Jobs /\ h.update_id \notin S
  BY DEF TypeOK, LastQuoteInHistory, HistoryRow
<1>7. LastQuoteInHistory'
  BY <1>2, <1>6 DEF LastQuoteInHistory
<1>8. OneHistoryRowPerJob'
  BY DEF OneHistoryRowPerJob
<1>9. DoneQuoted'
  BY <1>1, <1>2, ClaimedRow DEF DoneQuoted
<1> QED BY <1>4, <1>5, <1>7, <1>8, <1>9

\* The failure statement of CompleteQuoteUpdate.
LEMMA FailInv ==
  ASSUME Inv, NEW j \in Jobs, Fail(j)
  PROVE  Inv'
<1> USE DEF Inv, Fail
<1>1. updates \in UpdatesTable /\ updates[j] \in UpdateRow
  BY RowPresent DEF TypeOK, Unfinished, Status
<1>2. /\ updates' \in UpdatesTable
      /\ updates'[j] = WithStatus(updates[j], "failed", "msg")
      /\ \A i \in Jobs : i # j => updates'[i] = updates[i]
  BY <1>1, UpdateStatusRow DEF Status, Terminal
<1>3. TypeOK'
  BY <1>2 DEF TypeOK
<1>4. RowCoherent'
  BY <1>2 DEF RowCoherent, WithStatus, Terminal
<1>5. \A h \in history : h.update_id \in Jobs /\ h.update_id # j
  BY DEF TypeOK, LastQuoteInHistory, HistoryRow, Unfinished
<1>6. LastQuoteInHistory'
  BY <1>2, <1>5 DEF LastQuoteInHistory
<1>7. OneHistoryRowPerJob'
  BY DEF OneHistoryRowPerJob
<1>8. DoneQuoted'
  BY <1>2 DEF DoneQuoted, WithStatus
<1> QED BY <1>3, <1>4, <1>6, <1>7, <1>8

\* The transaction of CompleteQuoteUpdate.
LEMMA SucceedInv ==
  ASSUME Inv, NEW j \in Jobs, NEW at \in Times, Succeed(j, at)
  PROVE  Inv'
<1> DEFINE row == [pair |-> updates[j].pair, quoted_at |-> at, update_id |-> j]
<1> USE DEF Inv
<1>1. updates \in UpdatesTable /\ updates[j] \in UpdateRow
  BY RowPresent DEF TypeOK, Succeed, Unfinished, Status
<1>2. /\ updates' \in UpdatesTable
      /\ updates'[j] = WithStatus(updates[j], "done", "null")
      /\ \A i \in Jobs : i # j => updates'[i] = updates[i]
  BY <1>1, UpdateStatusRow DEF Succeed, Status, Terminal
<1>3. updates[j].pair \in Pairs /\ row \in HistoryRow
  BY <1>1 DEF UpdateRow, HistoryRow
<1>4. /\ history \subseteq HistoryRow
      /\ history' = history \cup InsertedRows(history, row)
      /\ quotes' = [quotes EXCEPT ![updates[j].pair] = at]
  BY DEF TypeOK, Succeed
<1> HIDE DEF row
<1>5. /\ InsertedRows(history, row) \subseteq {row}
      /\ \A g \in history, h \in InsertedRows(history, row) : ~ SameKey(g, h)
      /\ \E h \in history' : SameKey(h, row)
  BY <1>3, <1>4, InsertedRowsKey
<1>6. TypeOK'
  BY <1>2, <1>3, <1>4, <1>5 DEF TypeOK, QuotesTable
<1>7. RowCoherent'
  BY <1>2 DEF RowCoherent, WithStatus, Terminal
<1>8. \A h \in history : h.update_id \in Jobs /\ h.update_id # j
  BY DEF TypeOK, LastQuoteInHistory, HistoryRow, Succeed, Unfinished
<1>9. row.pair = updates[j].pair /\ row.quoted_at = at /\ row.update_id = j
  BY DEF row
<1>10. LastQuoteInHistory'
  <2>1. ASSUME NEW p \in Pairs, quotes'[p] # NoQuote
        PROVE  \E h \in history' : h.pair = p /\ h.quoted_at = quotes'[p]
    <3>1. CASE p = updates[j].pair
      BY <1>4, <1>5, <1>9, <3>1 DEF SameKey, TypeOK, QuotesTable
    <3>2. CASE p # updates[j].pair
      BY <1>4, <2>1, <3>2 DEF LastQuoteInHistory, TypeOK, QuotesTable
    <3> QED BY <3>1, <3>2
  <2>2. ASSUME NEW h \in history'
        PROVE  updates'[h.update_id].status = "done" /\ updates'[h.update_id].pair = h.pair
    <3>1. CASE h \in history
      BY <1>2, <1>8, <3>1 DEF LastQuoteInHistory
    <3>2. CASE h = row
      BY <1>2, <1>9, <3>2 DEF WithStatus
    <3> QED BY <1>4, <1>5, <3>1, <3>2
  <2> QED BY <2>1, <2>2 DEF LastQuoteInHistory
<1>11. OneHistoryRowPerJob'
  BY <1>4, <1>5, <1>8, <1>9 DEF OneHistoryRowPerJob, SameKey
<1>12. DoneQuoted'
  <2>1. at # NoQuote /\ updates'[j].pair = updates[j].pair
    BY <1>2 DEF WithStatus, Times, NoQuote
  <2>2. \A i \in Jobs : updates[i].status = "done" => updates[i].pair \in Pairs
    BY <1>1, RowPresent DEF UpdateRow, Status, Terminal
  <2>3. \A p \in Pairs : quotes'[p] = IF p = updates[j].pair THEN at ELSE quotes[p]
    BY <1>4 DEF TypeOK, QuotesTable
  <2> QED BY <1>2, <1>3, <2>1, <2>2, <2>3 DEF DoneQuoted
<1> QED BY <1>6, <1>7, <1>10, <1>11, <1>12

\* The lifecycle invariant holds in every reachable state.
THEOREM LifecycleInvariant == Spec => []Inv
<1>1. Inv /\ [Next]_vars => Inv'
  <2> SUFFICES ASSUME Inv, [Next]_vars PROVE Inv'
    OBVIOUS
  <2>1. CASE UNCHANGED vars
    BY <2>1 DEF vars, Inv, TypeOK, RowCoherent, LastQuoteInHistory, OneHistoryRowPerJob, DoneQuoted
  <2>2. CASE Next
    BY <2>2, RequestInv, ClaimInv, SucceedInv, FailInv DEF Next
  <2> QED BY <2>1, <2>2
<1> QED BY InitInv, <1>1, PTL DEF Spec

\* A client's read of an update is coherent in every reachable state.
THEOREM LifecycleReadCoherent == Spec => []ReadCoherent
<1>1. Inv => ReadCoherent
  <2> SUFFICES ASSUME Inv, NEW j \in Jobs, updates[j] # NoRow,
                      GetByID(updates, history, j).price # NoQuote
               PROVE  updates[j].status = "done"
    BY DEF Inv, RowCoherent, ReadCoherent
  <2>1. JobHistory(updates, history, j) # {}
    BY DEF GetByID
  <2> QED BY <2>1 DEF JobHistory, Inv, LastQuoteInHistory
<1> QED BY <1>1, LifecycleInvariant, PTL

\* What is read of a finished update never changes.
THEOREM LifecycleFinishedReadIsFinal == Spec => FinishedReadIsFinal
<1> DEFINE Final == \A j \in Jobs : updates[j].status \in Terminal =>
              GetByID(updates', history', j) = GetByID(updates, history, j)
<1>1. ASSUME Inv, [Next]_vars PROVE Final
  <2> SUFFICES ASSUME NEW j \in Jobs, updates[j].status \in Terminal
               PROVE  GetByID(updates', history', j) = GetByID(updates, history, j)
    OBVIOUS
  <2>1. ASSUME updates'[j] = updates[j],
               \A h \in history' : h \in history \/ h.update_id # j,
               history \subseteq history'
        PROVE  GetByID(updates', history', j) = GetByID(updates, history, j)
    <3>1. JobHistory(updates', history', j) = JobHistory(updates, history, j)
      BY <2>1 DEF JobHistory
    <3> QED BY <2>1, <3>1 DEF GetByID
  <2>2. CASE UNCHANGED vars
    BY <2>1, <2>2 DEF vars
  <2>3. ASSUME NEW i \in Jobs, NEW p \in Pairs, Request(i, p)
        PROVE  updates'[j] = updates[j] /\ history' = history
    BY <2>3 DEF Request, Inv, TypeOK, UpdatesTable, NoRow, Terminal
  <2>4. ASSUME NEW S \in SUBSET Jobs, Claim(S)
        PROVE  updates'[j] = updates[j] /\ history' = history
    BY <2>4 DEF Claim, ClaimRows, Terminal
  <2>5. ASSUME NEW i \in Jobs, Fail(i)
        PROVE  updates'[j] = updates[j] /\ history' = history
    BY <2>5 DEF Fail, Unfinished, UpdateStatus, Inv, TypeOK, UpdatesTable, Terminal
  <2>6. ASSUME NEW i \in Jobs, NEW at \in Times, Succeed(i, at)
        PROVE  GetByID(updates', history', j) = GetByID(updates, history, j)
    <3>1. i # j
      BY <2>6 DEF Succeed, Unfinished, Terminal
    <3>2. updates'[j] = updates[j]
      BY <2>6, <3>1 DEF Succeed, UpdateStatus, Inv, TypeOK, UpdatesTable
    <3>3. /\ \A h \in history' : h \in history \/ h.update_id # j
          /\ history \subseteq history'
      BY <2>6, <3>1 DEF Succeed, InsertedRows
    <3> QED BY <2>1, <3>2, <3>3
  <2>7. CASE Next
    BY <2>1, <2>3, <2>4, <2>5, <2>6, <2>7 DEF Next
  <2> QED BY <1>1, <2>2, <2>7
<1>2. Inv /\ [Next]_vars => [Final]_vars
  BY <1>1
<1> QED BY <1>2, LifecycleInvariant, PTL DEF Spec, FinishedReadIsFinal
============================================================================
