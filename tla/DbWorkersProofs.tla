-------------------------- MODULE DbWorkersProofs --------------------------
(***************************************************************************)
(* The db mode for any number of workers, jobs, pairs, crashes and         *)
(* database errors: type correctness, exclusive claims, the fate and the   *)
(* number of orphans, and the implementation of the lifecycle with the     *)
(* invariants that follow from it.  Then the stack of handlers and workers *)
(* of QuoteService, which implements the API.                              *)
(***************************************************************************)
EXTENDS QuoteService, QuoteCompletionProofs, FiniteSetTheorems

\* What a worker holds fits its place in the poll loop.
WorkerLocalsOK ==
  \A w \in Workers :
    /\ pc[w] # "idle" => mode[w] = "loop"
    /\ mode[w] # "claim" => sel[w] = {}
    /\ mode[w] # "loop" => batch[w] = {}

\* Rows locked by a claim are queued, claimed ones processing, and each of
\* them belongs to one worker.
Ownership ==
  /\ \A w \in Workers :
       /\ \A j \in sel[w] : updates[j].status = "queued"
       /\ \A j \in batch[w] : updates[j].status = "processing"
       /\ pc[w] # "idle" => updates[job[w]].status = "processing"
  /\ \A v, w \in Workers : v # w => sel[v] \cap sel[w] = {} /\ batch[v] \cap batch[w] = {}
  /\ \A v, w \in Workers : pc[v] # "idle" => job[v] \notin batch[w]

\* No error text before the update is finished, so that marking a claimed
\* update as processing once more changes nothing.
OpenRowsClean ==
  \A j \in Jobs : updates[j].status \in {"queued", "processing"} => updates[j].error = "null"

DbTypeOK ==
  /\ mode \in [Workers -> {"poll", "claim", "loop", "down"}]
  /\ sel \in [Workers -> SUBSET Jobs]
  /\ batch \in [Workers -> SUBSET Jobs]
  /\ crashes \in 0..MaxCrashes

DbInv == CompletionInv /\ DbTypeOK /\ WorkerLocalsOK /\ Ownership /\ OpenRowsClean

----------------------------------------------------------------------------

\* ORDER BY ... LIMIT only returns rows of the set it selects from.
LEMMA OldestSubset ==
  ASSUME NEW k, NEW S
  PROVE  Oldest(k, S) \subseteq S
BY DEF Oldest

\* The claim is the same statement in the abstract module.
LEMMA SameClaim ==
  ASSUME NEW u, NEW S
  PROVE  LC!ClaimRows(u, S) = ClaimRows(u, S)
BY DEF LC!ClaimRows, ClaimRows, LC!Claimed, Claimed

\* A claim keeps all columns but the status.
LEMMA ClaimedRow ==
  ASSUME NEW row \in UpdateRow
  PROVE  /\ Claimed(row) \in UpdateRow
         /\ Claimed(row).status = "processing"
         /\ Claimed(row).pair = row.pair
         /\ Claimed(row).error = row.error
BY DEF Claimed, UpdateRow, Status

\* The UPDATE of ClaimQueued on queued rows.
LEMMA ClaimRowsEffect ==
  ASSUME NEW u \in UpdatesTable, NEW S \in SUBSET Jobs, \A j \in S : u[j].status = "queued"
  PROVE  /\ ClaimRows(u, S) \in UpdatesTable
         /\ \A j \in S : /\ ClaimRows(u, S)[j].status = "processing"
                         /\ ClaimRows(u, S)[j].error = u[j].error
                         /\ ClaimRows(u, S)[j].pair = u[j].pair
         /\ \A j \in Jobs \ S : ClaimRows(u, S)[j] = u[j]
<1>1. \A j \in S : u[j] \in UpdateRow
  BY RowPresent DEF Status
<1>2. /\ \A j \in S : ClaimRows(u, S)[j] = Claimed(u[j])
      /\ \A j \in Jobs \ S : ClaimRows(u, S)[j] = u[j]
  BY DEF ClaimRows
<1>3. \A j \in Jobs : ClaimRows(u, S)[j] \in UpdateRow \cup {NoRow}
  <2>1. \A j \in S : ClaimRows(u, S)[j] \in UpdateRow
    BY <1>1, <1>2, ClaimedRow
  <2> QED BY <1>2, <2>1 DEF UpdatesTable
<1>4. ClaimRows(u, S) \in UpdatesTable
  BY <1>3 DEF UpdatesTable, ClaimRows
<1> QED BY <1>1, <1>2, <1>4, ClaimedRow

\* Marking a clean processing row as processing writes what is there.
LEMMA ProcessingAgain ==
  ASSUME NEW u \in UpdatesTable, NEW j \in Jobs,
         u[j].status = "processing", u[j].error = "null"
  PROVE  UpdateStatus(u, j, "processing", "null") = u
<1>1. u[j] \in UpdateRow
  BY RowPresent DEF Status
<1>2. WithStatus(u[j], "processing", "null") = u[j]
  BY <1>1 DEF WithStatus, UpdateRow, Terminal
<1> QED BY <1>2 DEF UpdateStatus, UpdatesTable

----------------------------------------------------------------------------
(* One lemma per action: the invariant is preserved, and the tables take a *)
(* step of the lifecycle.                                                  *)

\* No worker, no row.
LEMMA DbInitInv ==
  ASSUME Init
  PROVE  DbInv /\ LC!Init
<1>1. CompletionInv /\ LC!Init
  BY CompletionInitInv DEF Init
<1>2. DbTypeOK
  BY BatchAssumption DEF Init, DbTypeOK
<1>3. WorkerLocalsOK /\ Ownership
  BY DEF Init, CompletionInit, WorkerLocalsOK, Ownership, Workers
<1>4. OpenRowsClean
  BY DEF Init, CompletionInit, OpenRowsClean, NoRow
<1> QED BY <1>1, <1>2, <1>3, <1>4 DEF DbInv

\* A new queued row is in nobody's hands.
LEMMA CreateQueuedInv ==
  ASSUME DbInv, NEW j \in Jobs, NEW p \in Pairs, CreateQueued(j, p)
  PROVE  DbInv' /\ LC!Request(j, p)
<1> USE DEF DbInv, CreateQueued
<1>1. QueuedRow(p) \in UpdateRow /\ updates \in UpdatesTable
  BY DEF QueuedRow, UpdateRow, Status, CompletionInv, CompletionTypeOK
<1>2. /\ updates' \in UpdatesTable
      /\ updates'[j] = QueuedRow(p)
      /\ \A i \in Jobs : i # j => updates'[i] = updates[i]
  BY <1>1 DEF UpdatesTable
<1>3. updates[j].status = "none"
  BY DEF NoRow
<1>4. \A w \in Procs : pc[w] # "idle" => job[w] \in Jobs /\ job[w] # j
  BY BusyProc
<1>5. CompletionInv'
  <2>1. \A w \in Procs : pc[w] # "idle" =>
          /\ updates'[job[w]].pair = updates[job[w]].pair
          /\ updates'[job[w]].status \in {"queued", "processing"}
    BY <1>2, <1>4 DEF CompletionInv, JobsOpen, LC!Unfinished
  <2>2. dbErrors' \in 0..MaxDbErrors
    BY DEF CompletionInv, CompletionTypeOK
  <2> QED BY <1>2, <2>1, <2>2, CompletionFrame
<1>6. DbTypeOK' /\ WorkerLocalsOK'
  BY DEF DbTypeOK, WorkerLocalsOK, completion
<1>7. Ownership'
  BY <1>2, <1>3, <1>4 DEF Ownership, DbTypeOK, completion, Workers
<1>8. OpenRowsClean'
  BY <1>2 DEF OpenRowsClean, QueuedRow
<1>9. LC!Request(j, p)
  BY SameInsert DEF LC!Request
<1> QED BY <1>5, <1>6, <1>7, <1>8, <1>9

\* Steps of the poll loop that write no table: the locking SELECT, the end of
\* a batch and a restart.
LEMMA PollInv ==
  ASSUME DbInv, NEW w \in Workers, ClaimSelect(w) \/ EndBatch(w) \/ Restart(w)
  PROVE  DbInv' /\ UNCHANGED tables
<1> USE DEF DbInv
<1>1. UNCHANGED <<tables, clock, completion, dbErrors, batch, crashes>>
  BY DEF ClaimSelect, EndBatch, Restart
<1>2. CompletionInv'
  BY <1>1, FrameInv
<1>3. CASE ClaimSelect(w)
  <2>1. PICK S \in SUBSET Claimable : sel' = [sel EXCEPT ![w] = S]
    BY <1>3, OldestSubset DEF ClaimSelect
  <2>2. \A j \in S : /\ j \in Jobs /\ updates[j].status = "queued"
                     /\ \A v \in Workers : j \notin sel[v]
    BY <2>1 DEF Claimable, Queued, Locked
  <2>3. DbTypeOK' /\ WorkerLocalsOK'
    BY <1>1, <1>3, <2>1, <2>2 DEF DbTypeOK, WorkerLocalsOK, ClaimSelect, completion
  <2>4. Ownership'
    BY <1>1, <2>1, <2>2 DEF Ownership, DbTypeOK, completion, tables
  <2>5. OpenRowsClean'
    BY <1>1 DEF OpenRowsClean, tables
  <2> QED BY <1>1, <1>2, <2>3, <2>4, <2>5
<1>4. CASE EndBatch(w) \/ Restart(w)
  <2>1. DbTypeOK' /\ WorkerLocalsOK'
    BY <1>1, <1>4 DEF DbTypeOK, WorkerLocalsOK, EndBatch, Restart, completion
  <2>2. Ownership' /\ OpenRowsClean'
    BY <1>1, <1>4 DEF Ownership, OpenRowsClean, EndBatch, Restart, completion, tables
  <2> QED BY <1>1, <1>2, <2>1, <2>2
<1> QED BY <1>3, <1>4

\* The UPDATE of ClaimQueued on the rows a worker has locked, whether or not
\* the worker gets to know them.
LEMMA ClaimedInv ==
  ASSUME DbInv, NEW w \in Workers, updates' = ClaimRows(updates, sel[w]),
         UNCHANGED <<quotes, history, clock, completion, crashes>>,
         dbErrors' \in 0..MaxDbErrors,
         sel' = [sel EXCEPT ![w] = {}],
         \/ mode[w] = "claim" /\ mode' = [mode EXCEPT ![w] = "loop"]
              /\ batch' = [batch EXCEPT ![w] = sel[w]]
         \/ mode[w] = "claim" /\ mode' = [mode EXCEPT ![w] = "poll"] /\ batch' = batch
  PROVE  DbInv' /\ sel[w] \in SUBSET Jobs /\ LC!Claim(sel[w])
<1> USE DEF DbInv
<1>1. sel[w] \in SUBSET Jobs /\ \A j \in sel[w] : updates[j].status = "queued"
  BY DEF DbTypeOK, Ownership
<1>2. /\ updates' \in UpdatesTable
      /\ \A j \in sel[w] : /\ updates'[j].status = "processing"
                           /\ updates'[j].error = updates[j].error
                           /\ updates'[j].pair = updates[j].pair
      /\ \A j \in Jobs \ sel[w] : updates'[j] = updates[j]
  BY <1>1, ClaimRowsEffect DEF CompletionInv, CompletionTypeOK
<1>3. \A v \in Procs : pc[v] # "idle" => job[v] \in Jobs \ sel[w]
  BY <1>1, BusyProc DEF Ownership, Workers
<1>4. CompletionInv'
  <2>1. \A v \in Procs : pc[v] # "idle" =>
          /\ updates'[job[v]].pair = updates[job[v]].pair
          /\ updates'[job[v]].status \in {"queued", "processing"}
    BY <1>2, <1>3 DEF CompletionInv, JobsOpen, LC!Unfinished
  <2> QED BY <1>2, <2>1, CompletionFrame
<1>5. DbTypeOK' /\ WorkerLocalsOK'
  BY <1>1 DEF DbTypeOK, WorkerLocalsOK, completion
<1>6. batch[w] = {} /\ pc[w] = "idle"
  BY DEF WorkerLocalsOK
<1>7. \A v \in Workers : /\ sel'[v] = IF v = w THEN {} ELSE sel[v]
                         /\ batch'[v] = batch[v] \/ (v = w /\ batch'[v] = sel[w])
  BY DEF DbTypeOK
<1>8. Ownership'
  <2>1. ASSUME NEW v \in Workers
        PROVE  /\ \A j \in sel'[v] : updates'[j].status = "queued"
               /\ \A j \in batch'[v] : updates'[j].status = "processing"
               /\ pc'[v] # "idle" => updates'[job'[v]].status = "processing"
    <3>1. \A j \in sel'[v] : j \in Jobs \ sel[w] /\ updates[j].status = "queued"
      BY <1>7 DEF Ownership, DbTypeOK
    <3>2. \A j \in batch'[v] : j \in sel[w] \/ (j \in Jobs \ sel[w] /\ updates[j].status = "processing")
      BY <1>1, <1>7 DEF Ownership, DbTypeOK
    <3> QED BY <1>2, <1>3, <3>1, <3>2 DEF Ownership, completion, Workers
  <2>2. ASSUME NEW v \in Workers, NEW x \in Workers, v # x
        PROVE  sel'[v] \cap sel'[x] = {} /\ batch'[v] \cap batch'[x] = {}
    <3>1. \A y \in Workers : \A j \in batch[y] : j \notin sel[w]
      BY <1>1 DEF Ownership
    <3> QED BY <1>6, <1>7, <2>2, <3>1 DEF Ownership
  <2>3. ASSUME NEW v \in Workers, NEW x \in Workers, pc'[v] # "idle"
        PROVE  job'[v] \notin batch'[x]
    BY <1>3, <1>7, <2>3 DEF Ownership, completion, Workers
  <2> QED BY <2>1, <2>2, <2>3 DEF Ownership
<1>9. OpenRowsClean'
  BY <1>1, <1>2 DEF OpenRowsClean
<1>10. LC!Claim(sel[w])
  BY <1>1, SameClaim DEF LC!Claim
<1> QED BY <1>1, <1>4, <1>5, <1>8, <1>9, <1>10

\* The commit of a claim.
LEMMA ClaimCommitInv ==
  ASSUME DbInv, NEW w \in Workers, ClaimCommit(w)
  PROVE  DbInv' /\ sel[w] \in SUBSET Jobs /\ LC!Claim(sel[w])
<1>1. dbErrors' \in 0..MaxDbErrors
  BY DEF ClaimCommit, DbInv, CompletionInv, CompletionTypeOK
<1> QED BY <1>1, ClaimedInv DEF ClaimCommit

\* A claim that fails before or after its commit.
LEMMA ClaimErrorInv ==
  ASSUME DbInv, NEW w \in Workers, ClaimError(w)
  PROVE  /\ DbInv'
         /\ UNCHANGED tables \/ (sel[w] \in SUBSET Jobs /\ LC!Claim(sel[w]))
<1>1. dbErrors' \in 0..MaxDbErrors
  BY DbErrorsAssumption DEF ClaimError, DbError, DbInv, CompletionInv, CompletionTypeOK
<1>2. CASE updates' = ClaimRows(updates, sel[w])
  BY <1>1, <1>2, ClaimedInv DEF ClaimError
<1>3. CASE updates' = updates
  <2> USE DEF DbInv
  <2>1. /\ UNCHANGED <<quotes, history, clock, completion, batch, crashes>>
        /\ sel' = [sel EXCEPT ![w] = {}]
        /\ mode[w] = "claim" /\ mode' = [mode EXCEPT ![w] = "poll"]
    BY DEF ClaimError
  <2>2. CompletionInv'
    BY <1>1, <1>3, <2>1, CompletionFrame
    DEF CompletionInv, CompletionTypeOK, JobsOpen, LC!Unfinished
  <2>3. DbTypeOK' /\ WorkerLocalsOK'
    BY <2>1 DEF DbTypeOK, WorkerLocalsOK, completion
  <2>4. Ownership' /\ OpenRowsClean'
    BY <1>3, <2>1 DEF Ownership, OpenRowsClean, DbTypeOK, completion
  <2> QED BY <1>3, <2>1, <2>2, <2>3, <2>4 DEF tables
<1> QED BY <1>2, <1>3 DEF ClaimError

\* The loop takes a job of its batch: its row is already what
\* UpdateStatus(processing) writes, and nobody else works on it.
LEMMA StartJobInv ==
  ASSUME DbInv, NEW w \in Workers, NEW j \in Jobs, StartJob(w, j)
  PROVE  DbInv' /\ UNCHANGED tables
<1> USE DEF DbInv
<1>1. /\ j \in batch[w] /\ mode[w] = "loop"
      /\ pc[w] = "idle" /\ pc' = [pc EXCEPT ![w] = "fetch"]
      /\ job' = [job EXCEPT ![w] = j]
      /\ batch' = [batch EXCEPT ![w] = batch[w] \ {j}]
      /\ UNCHANGED <<quotes, history, clock, quote, staged, dbErrors, mode, sel, crashes>>
  BY DEF StartJob, Goto
<1>2. w \in Procs /\ updates[j].status = "processing"
  BY <1>1 DEF Ownership, Workers
<1>3. updates' = updates
  BY <1>2, ProcessingAgain DEF StartJob, OpenRowsClean, CompletionInv, CompletionTypeOK
<1>4. \A v \in Procs \ {w} : pc'[v] = pc[v] /\ job'[v] = job[v]
  BY <1>1, <1>2 DEF CompletionInv, CompletionTypeOK
<1>5. pc'[w] = "fetch" /\ job'[w] = j
  BY <1>1, <1>2 DEF CompletionInv, CompletionTypeOK
<1>6. \A v \in Procs : pc[v] # "idle" => job[v] # j
  BY <1>1 DEF Ownership, Workers
<1>7. CompletionInv'
  <2>1. \A v \in Procs : job[v] # j
    BY <1>6, JobsAssumption DEF CompletionInv, LocalsOK, NoJob
  <2> QED BY <1>1, <1>2, <1>3, <2>1, StartInv DEF tables
<1>8. DbTypeOK' /\ WorkerLocalsOK'
  BY <1>1, <1>4, <1>5 DEF DbTypeOK, WorkerLocalsOK, Workers
<1>9. \A v \in Workers : batch'[v] \subseteq batch[v] /\ (v = w => j \notin batch'[v])
  BY <1>1 DEF DbTypeOK
<1>10. \A v \in Workers : j \notin batch'[v]
  BY <1>1, <1>9 DEF Ownership
<1>11. Ownership'
  BY <1>1, <1>2, <1>3, <1>4, <1>5, <1>9, <1>10 DEF Ownership, Workers
<1>12. OpenRowsClean'
  BY <1>3 DEF OpenRowsClean
<1> QED BY <1>1, <1>3, <1>7, <1>8, <1>11, <1>12 DEF tables

\* A step of CompleteQuoteUpdate disturbs no other worker's jobs.
LEMMA CompleteInv ==
  ASSUME DbInv, NEW w \in Workers, Complete(w)
  PROVE  DbInv' /\ [LC!Next]_LC!vars
<1> USE DEF DbInv
<1>1. w \in Procs /\ (CompletionStep(w) \/ CompletionFault(w)) /\ UNCHANGED <<mode, sel, batch, crashes>>
  BY DEF Complete, Workers
<1>2. CompletionInv' /\ [LC!Next]_LC!vars
  BY <1>1, CompletionImplementsLifecycle
<1>3. /\ pc[w] # "idle"
      /\ \A o \in Procs \ {w} : pc'[o] = pc[o] /\ job'[o] = job[o]
      /\ pc'[w] # "idle" => job'[w] = job[w] /\ updates' = updates
      /\ \A i \in Jobs : i # job[w] => updates'[i] = updates[i]
      /\ updates' = updates \/ updates'[job[w]].status \in Terminal
  BY <1>1, CompletionEffect
<1>4. DbTypeOK' /\ WorkerLocalsOK'
  BY <1>1, <1>3 DEF DbTypeOK, WorkerLocalsOK, Workers
<1>5. \A v \in Workers : job[w] \notin sel[v] /\ job[w] \notin batch[v]
  BY <1>3 DEF Ownership
<1>6. \A v \in Procs \ {w} : pc[v] # "idle" => job[v] \in Jobs /\ job[v] # job[w]
  BY <1>1, <1>3, BusyProc DEF CompletionInv, JobsOpen
<1>7. Ownership'
  BY <1>1, <1>3, <1>5, <1>6 DEF Ownership, DbTypeOK, Workers
<1>8. OpenRowsClean'
  BY <1>3 DEF OpenRowsClean, Terminal
<1> QED BY <1>2, <1>4, <1>7, <1>8

\* A crash frees what the worker held and writes nothing.
LEMMA CrashInv ==
  ASSUME DbInv, NEW w \in Workers, Crash(w)
  PROVE  DbInv' /\ UNCHANGED tables
<1> USE DEF DbInv, Crash
<1>1. w \in Procs /\ Reset(w) /\ UNCHANGED <<tables, clock, dbErrors>>
  BY DEF Workers
<1>2. CompletionInv'
  BY <1>1, ResetInv DEF CompletionInv, CompletionTypeOK
<1>3. /\ pc'[w] = "idle"
      /\ \A v \in Procs \ {w} : pc'[v] = pc[v] /\ job'[v] = job[v]
  BY <1>1 DEF Reset, CompletionInv, CompletionTypeOK
<1>4. DbTypeOK' /\ WorkerLocalsOK'
  BY <1>3, BatchAssumption DEF DbTypeOK, WorkerLocalsOK, Workers
<1>5. Ownership' /\ OpenRowsClean'
  BY <1>1, <1>3 DEF Ownership, OpenRowsClean, DbTypeOK, Workers, tables
<1> QED BY <1>1, <1>2, <1>4, <1>5

\* The provider's clock is nobody's state.
LEMMA ProviderInv ==
  ASSUME DbInv, Provider
  PROVE  DbInv' /\ UNCHANGED tables
<1>1. CompletionInv' /\ UNCHANGED tables
  BY TickInv DEF Provider, DbInv
<1> QED BY <1>1 DEF Provider, Tick, DbInv, DbTypeOK, WorkerLocalsOK, Ownership, OpenRowsClean,
                    completion, tables

\* Stuttering steps, PollEmpty among them.
LEMMA StutterInv ==
  ASSUME DbInv, UNCHANGED vars
  PROVE  DbInv' /\ UNCHANGED tables
<1>1. CompletionInv'
  BY FrameInv DEF vars, DbInv
<1> QED BY <1>1 DEF vars, DbInv, DbTypeOK, WorkerLocalsOK, Ownership, OpenRowsClean,
                    completion, tables

\* Every step of the db mode keeps the invariant and is a step or a stutter of
\* the lifecycle.
LEMMA NextInv ==
  ASSUME DbInv, [Next]_vars
  PROVE  DbInv' /\ [LC!Next]_LC!vars
<1> USE DEF LC!vars, tables
<1>1. CASE UNCHANGED vars
  BY <1>1, StutterInv
<1>2. ASSUME NEW j \in Jobs, NEW p \in Pairs, CreateQueued(j, p)
      PROVE  DbInv' /\ [LC!Next]_LC!vars
  BY <1>2, CreateQueuedInv DEF LC!Next
<1>3. ASSUME NEW w \in Workers, PollEmpty(w)
      PROVE  DbInv' /\ [LC!Next]_LC!vars
  BY <1>3, StutterInv DEF PollEmpty
<1>4. ASSUME NEW w \in Workers, ClaimSelect(w) \/ EndBatch(w) \/ Restart(w)
      PROVE  DbInv' /\ [LC!Next]_LC!vars
  BY <1>4, PollInv
<1>5. ASSUME NEW w \in Workers, ClaimCommit(w)
      PROVE  DbInv' /\ [LC!Next]_LC!vars
  BY <1>5, ClaimCommitInv DEF LC!Next
<1>6. ASSUME NEW w \in Workers, ClaimError(w)
      PROVE  DbInv' /\ [LC!Next]_LC!vars
  BY <1>6, ClaimErrorInv DEF LC!Next
<1>7. ASSUME NEW w \in Workers, NEW j \in Jobs, StartJob(w, j)
      PROVE  DbInv' /\ [LC!Next]_LC!vars
  BY <1>7, StartJobInv
<1>8. ASSUME NEW w \in Workers, Complete(w)
      PROVE  DbInv' /\ [LC!Next]_LC!vars
  BY <1>8, CompleteInv
<1>9. ASSUME NEW w \in Workers, Crash(w)
      PROVE  DbInv' /\ [LC!Next]_LC!vars
  BY <1>9, CrashInv
<1>10. CASE Provider
  BY <1>10, ProviderInv
<1> QED BY <1>1, <1>2, <1>3, <1>4, <1>5, <1>6, <1>7, <1>8, <1>9, <1>10 DEF Next, WorkerNext

----------------------------------------------------------------------------

\* The inductive invariant of the db mode.
THEOREM DbInvariant == Spec => []DbInv
<1>1. Init => DbInv
  BY DbInitInv
<1>2. DbInv /\ [Next]_vars => DbInv'
  BY NextInv
<1> QED BY <1>1, <1>2, PTL DEF Spec

\* Type correctness.
THEOREM DbTypeCorrect == Spec => []TypeOK
<1>1. DbInv => TypeOK
  BY DEF DbInv, CompletionInv, DbTypeOK, TypeOK
<1> QED BY <1>1, DbInvariant, PTL

\* No two workers ever hold the same update, and what they hold is unfinished.
THEOREM DbClaimExclusive == Spec => []ClaimExclusive
<1>1. DbInv => ClaimExclusive
  <2> SUFFICES ASSUME DbInv PROVE ClaimExclusive
    OBVIOUS
  <2>1. \A w \in Workers : \A j \in Owned(w) :
          \/ j \in sel[w] /\ updates[j].status = "queued"
          \/ j \in batch[w] /\ updates[j].status = "processing"
          \/ j = job[w] /\ pc[w] # "idle" /\ updates[j].status = "processing"
    BY DEF Owned, DbInv, CompletionInv, LocalsOK, Ownership, Workers
  <2>2. ASSUME NEW v \in Workers, NEW w \in Workers, v # w, NEW j \in Owned(v), j \in Owned(w)
        PROVE  FALSE
    <3>1. CASE updates[j].status = "queued"
      BY <2>1, <2>2, <3>1 DEF DbInv, Ownership
    <3>2. CASE updates[j].status # "queued"
      <4>1. /\ j \in batch[v] \/ (j = job[v] /\ pc[v] # "idle")
            /\ j \in batch[w] \/ (j = job[w] /\ pc[w] # "idle")
        BY <2>1, <2>2, <3>2
      <4>2. \A x, y \in Workers : pc[x] # "idle" => job[x] \notin batch[y]
        BY DEF DbInv, Ownership
      <4>3. batch[v] \cap batch[w] = {}
        BY <2>2 DEF DbInv, Ownership
      <4>4. pc[v] # "idle" => job[v] # job[w]
        BY <2>2 DEF DbInv, CompletionInv, JobsOpen, Workers
      <4> QED BY <4>1, <4>2, <4>3, <4>4
    <3> QED BY <3>1, <3>2
  <2> QED BY <2>1, <2>2 DEF ClaimExclusive
<1> QED BY <1>1, DbInvariant, PTL

\* The db mode implements the lifecycle.
THEOREM DbImplementsLifecycle == Spec => ImplementsLifecycle
<1>1. Init => LC!Init
  BY DbInitInv
<1>2. DbInv /\ [Next]_vars => [LC!Next]_LC!vars
  BY NextInv
<1> QED BY <1>1, <1>2, DbInvariant, PTL DEF Spec, ImplementsLifecycle, LC!Spec

\* In the db mode the claim has marked every update that a worker completes as
\* processing, as the documentation says of all modes; the other two do not.
THEOREM DbMarkedProcessing == Spec => []MarkedProcessing
<1>1. DbInv => MarkedProcessing
  BY DEF DbInv, Ownership, MarkedProcessing, Workers
<1> QED BY <1>1, DbInvariant, PTL

\* What clients read of an update is coherent at all times.
THEOREM DbReadCoherent == Spec => []ReadCoherent
BY DbImplementsLifecycle, LifecycleReads, PTL

\* The last quote of a pair is always one that the history records.
THEOREM DbLastQuoteInHistory == Spec => []LastQuoteInHistory
BY DbImplementsLifecycle, LifecycleReads, PTL

\* No update is recorded twice.
THEOREM DbOneHistoryRowPerJob == Spec => []OneHistoryRowPerJob
BY DbImplementsLifecycle, LifecycleReads, PTL

\* A client that has read its update as done finds a last quote of the pair.
THEOREM DbDoneThenLastQuote == Spec => []DoneThenLastQuote
BY DbImplementsLifecycle, LifecycleReads, PTL

\* What clients read of a finished update never changes.
THEOREM DbFinishedReadIsFinal == Spec => FinishedReadIsFinal
BY DbImplementsLifecycle, LifecycleFinal, PTL

----------------------------------------------------------------------------
(* Orphans. *)

\* A step of a worker neither rewrites nor takes a processing update that no
\* worker holds.
LEMMA OrphanStep ==
  ASSUME DbInv, [Next]_vars, NEW j \in Orphans
  PROVE  updates'[j] = updates[j] /\ j \in Orphans'
<1> USE DEF DbInv
<1>1. /\ j \in Jobs /\ j # NoJob /\ updates[j].status = "processing"
      /\ \A w \in Workers : j \notin sel[w] /\ j \notin batch[w] /\ j # job[w]
  BY JobsAssumption DEF Orphans, Owned, NoJob
<1>2. ASSUME updates'[j] = updates[j],
             \A w \in Workers : j \notin sel'[w] /\ j \notin batch'[w] /\ j # job'[w]
      PROVE  updates'[j] = updates[j] /\ j \in Orphans'
  BY <1>1, <1>2 DEF Orphans, Owned, Workers
<1> DEFINE Kept == /\ updates'[j] = updates[j]
                   /\ \A w \in Workers : j \notin sel'[w] /\ j \notin batch'[w] /\ j # job'[w]
<1>3. CASE UNCHANGED vars \/ Provider
  BY <1>1, <1>2, <1>3 DEF vars, tables, completion, Provider, Tick
<1>4. ASSUME NEW i \in Jobs, NEW p \in Pairs, CreateQueued(i, p)
      PROVE  Kept
  BY <1>1, <1>4 DEF CreateQueued, completion, CompletionInv, CompletionTypeOK, UpdatesTable, NoRow
<1>5. ASSUME NEW w \in Workers, ClaimSelect(w)
      PROVE  Kept
  <2>1. j \notin Oldest(BatchLimit, Claimable)
    BY <1>1, OldestSubset DEF Claimable, Queued
  <2> QED BY <1>1, <1>5, <2>1 DEF ClaimSelect, completion, tables, DbTypeOK
<1>6. ASSUME NEW w \in Workers, ClaimCommit(w) \/ ClaimError(w)
      PROVE  Kept
  <2>1. updates'[j] = updates[j]
    BY <1>1, <1>6 DEF ClaimCommit, ClaimError, ClaimRows
  <2> QED BY <1>1, <1>6, <2>1 DEF ClaimCommit, ClaimError, completion, DbTypeOK
<1>7. ASSUME NEW w \in Workers, NEW i \in Jobs, StartJob(w, i)
      PROVE  Kept
  <2>1. updates' = updates
    BY <1>7, StartJobInv DEF tables
  <2>2. i # j
    BY <1>1, <1>7 DEF StartJob
  <2> QED BY <1>1, <1>7, <2>1, <2>2 DEF StartJob, DbTypeOK, CompletionInv, CompletionTypeOK, Workers
<1>8. ASSUME NEW w \in Workers, PollEmpty(w) \/ EndBatch(w) \/ Restart(w)
      PROVE  Kept
  BY <1>1, <1>8 DEF PollEmpty, EndBatch, Restart, vars, tables, completion
<1>9. ASSUME NEW w \in Workers, Complete(w)
      PROVE  Kept
  <2>1. /\ w \in Procs /\ UNCHANGED <<sel, batch>>
        /\ \A o \in Procs \ {w} : job'[o] = job[o]
        /\ pc'[w] # "idle" => job'[w] = job[w]
        /\ updates'[j] = updates[j]
    BY <1>1, <1>9, CompletionEffect DEF Complete, Workers
  <2>2. pc'[w] = "idle" => job'[w] = NoJob
    BY <1>9, <2>1, CompleteInv DEF CompletionInv, LocalsOK
  <2> QED BY <1>1, <2>1, <2>2 DEF Workers
<1>10. ASSUME NEW w \in Workers, Crash(w)
       PROVE  Kept
  BY <1>1, <1>10 DEF Crash, Reset, tables, DbTypeOK, CompletionInv, CompletionTypeOK, Workers
<1>11. CASE Next
  BY <1>2, <1>3, <1>4, <1>5, <1>6, <1>7, <1>8, <1>9, <1>10, <1>11 DEF Next, WorkerNext
<1> QED BY <1>3, <1>11

\* An update that a fault left in processing stays there for good.
THEOREM DbOrphanStays == Spec => OrphanStays
<1>1. DbInv /\ [Next]_vars => [\A j \in Orphans : updates'[j] = updates[j] /\ j \in Orphans']_vars
  BY OrphanStep
<1> QED BY <1>1, DbInvariant, PTL DEF Spec, OrphanStays

----------------------------------------------------------------------------
(* The stack: the handlers of QuoteApi and the workers on the same table. *)

\* The theorems about the API, for requests that are numbered as their updates.
ApiP == INSTANCE HttpServerProofs WITH
          Requests <- Jobs, Keys <- Keys, MaxFaults <- MaxFaults,
          MaxExpiries <- MaxTtls, MaxCrashes <- MaxApiCrashes,
          reserved <- reserved, expired <- expired, created <- Created,
          at <- at, key <- key, epoch <- epoch, code <- code,
          faults <- faults, crashes <- apiCrashes

\* For the workers, a step of the stack is one of theirs or an INSERT.
LEMMA ServiceStepIsDbStep ==
  ASSUME [ServiceNext]_serviceVars
  PROVE  [Next]_vars
<1>1. ASSUME NEW j \in Jobs, Handler(j) \/ Insert(j) \/ InsertError(j)
      PROVE  [Next]_vars
  BY <1>1 DEF Handler, Insert, InsertError, Next
<1>2. ApiEvent \/ Background => [Next]_vars
  BY DEF ApiEvent, Background, Next
<1>3. UNCHANGED serviceVars => UNCHANGED vars
  BY DEF serviceVars
<1> QED BY <1>1, <1>2, <1>3 DEF ServiceNext

\* The workers of the stack are those of the db mode: what is proved of the db
\* mode holds in the stack.
THEOREM ServiceIsDbMode == ServiceSpec => Spec
<1>1. ServiceInit => Init
  BY DEF ServiceInit
<1>2. [ServiceNext]_serviceVars => [Next]_vars
  BY ServiceStepIsDbStep
<1> QED BY <1>1, <1>2, PTL DEF ServiceSpec, Spec

\* Workers neither make nor remove an update.
LEMMA WorkersKeepCreated ==
  ASSUME DbInv, WorkerNext
  PROVE  Created' = Created
<1> USE DEF DbInv
<1>1. ASSUME updates' = updates PROVE Created' = Created
  BY <1>1 DEF Created
<1>2. ASSUME NEW w \in Workers, PollEmpty(w) \/ ClaimSelect(w) \/ EndBatch(w) \/ Crash(w) \/ Restart(w)
      PROVE  updates' = updates
  BY <1>2 DEF PollEmpty, ClaimSelect, EndBatch, Crash, Restart, vars, tables
<1>3. ASSUME NEW w \in Workers, updates' = ClaimRows(updates, sel[w])
      PROVE  Created' = Created
  <2>1. updates \in UpdatesTable /\ sel[w] \in SUBSET Jobs
    BY DEF CompletionInv, CompletionTypeOK, DbTypeOK
  <2>2. \A j \in sel[w] : updates[j].status = "queued"
    BY DEF Ownership
  <2>3. /\ \A j \in sel[w] : updates'[j].status = "processing"
        /\ \A j \in Jobs \ sel[w] : updates'[j] = updates[j]
    BY <1>3, <2>1, <2>2, ClaimRowsEffect
  <2> QED BY <2>1, <2>2, <2>3 DEF Created, NoRow
<1>4. ASSUME NEW w \in Workers, ClaimCommit(w) \/ ClaimError(w)
      PROVE  Created' = Created
  BY <1>1, <1>3, <1>4 DEF ClaimCommit, ClaimError
<1>5. ASSUME NEW w \in Workers, NEW j \in Jobs, StartJob(w, j)
      PROVE  updates' = updates
  BY <1>5, StartJobInv DEF tables
<1>6. ASSUME NEW w \in Workers, Complete(w)
      PROVE  Created' = Created
  <2>1. w \in Procs /\ (CompletionStep(w) \/ CompletionFault(w))
    BY <1>6 DEF Complete, Workers
  <2>2. /\ pc[w] # "idle"
        /\ \A i \in Jobs : i # job[w] => updates'[i] = updates[i]
        /\ updates' = updates \/ updates'[job[w]].status \in Terminal
    BY <2>1, CompletionEffect
  <2>3. job[w] \in Jobs /\ updates[job[w]] # NoRow
    BY <2>1, <2>2, BusyProc
  <2> QED BY <2>2, <2>3 DEF Created, NoRow, Terminal
<1>7. Provider => updates' = updates
  BY DEF Provider, Tick, tables
<1> QED BY <1>1, <1>2, <1>4, <1>5, <1>6, <1>7 DEF WorkerNext

\* The stack implements the API: however fast the workers are, a step of theirs
\* is none of the API.
THEOREM ServiceImplementsApi == ServiceSpec => ImplementsApi
<1>1. ServiceInit => Api!Init
  BY DEF ServiceInit
<1>2. ASSUME DbInv, [ServiceNext]_serviceVars
      PROVE  [Api!Next]_Api!vars
  <2>1. ASSUME NEW j \in Jobs, Handler(j) \/ Insert(j) \/ InsertError(j)
        PROVE  Api!Next
    BY <2>1 DEF Handler, Calls, Refusals, Insert, InsertError, Api!Next
  <2>2. ApiEvent => Api!Next
    BY DEF ApiEvent, Api!Next
  <2>3. Background \/ UNCHANGED serviceVars => UNCHANGED Api!vars
    BY <1>2, WorkersKeepCreated DEF Background, api, serviceVars, vars, tables, Created, Api!vars
  <2> QED BY <1>2, <2>1, <2>2, <2>3 DEF ServiceNext
<1> QED BY <1>1, <1>2, ServiceIsDbMode, DbInvariant, PTL DEF ServiceSpec, ImplementsApi, Api!Spec

\* Workers never finish two updates for one lifetime of a key.
THEOREM ServiceOneResultPerKey == ServiceSpec => []OneResultPerKey
<1>1. ImplementsApi => ApiP!Spec
  BY DEF ImplementsApi, Api!Spec, Api!Init, Api!Next, Api!vars, Api!Reject, Api!CallService, Api!Reserve,
         Api!Conflict, Api!ReserveReplyLost, Api!ReserveError, Api!CreateQueued, Api!CreateQueuedError,
         Api!Accepted, Api!Expire, Api!Crash, Api!Quiet, Api!Answer, Api!Goto, Api!Fault, Api!NoKey, Api!NoEpoch,
         ApiP!Spec, ApiP!Init, ApiP!Next, ApiP!vars, ApiP!Reject, ApiP!CallService, ApiP!Reserve,
         ApiP!Conflict, ApiP!ReserveReplyLost, ApiP!ReserveError, ApiP!CreateQueued, ApiP!CreateQueuedError,
         ApiP!Accepted, ApiP!Expire, ApiP!Crash, ApiP!Quiet, ApiP!Answer, ApiP!Goto, ApiP!Fault, ApiP!NoKey,
         ApiP!NoEpoch
<1>2. MaxFaults \in Nat /\ MaxTtls \in Nat /\ MaxApiCrashes \in Nat
  BY ServiceAssumption
<1>3. ApiP!Spec => []ApiP!OneUpdatePerKey
  BY <1>2, ApiP!ApiOneUpdatePerKey
<1>4. ApiP!OneUpdatePerKey => OneResultPerKey
  BY DEF ApiP!OneUpdatePerKey, OneResultPerKey, Created, Terminal, NoRow
<1> QED BY <1>1, <1>3, <1>4, ServiceImplementsApi, PTL

----------------------------------------------------------------------------
(* How many orphans there can be. *)

\* The jobs of a worker's batch that it has not finished.
Holding(w) == batch[w] \cup ({job[w]} \ {NoJob})

\* At most as many jobs as one claim returns.
Small(S) == IsFiniteSet(S) /\ Cardinality(S) <= BatchLimit

\* LIMIT bounds what a worker has locked and what it still has to complete, and
\* the table has finitely many rows.
BatchesInv ==
  /\ IsFiniteSet(Created)
  /\ \A w \in Workers : Small(sel[w]) /\ Small(Holding(w))

OrphansInv == BatchesInv /\ IsFiniteSet(Orphans) /\ OrphansBounded

\* LIMIT k returns at most k rows: each row has its own number of older ones.
LEMMA OldestBounded ==
  ASSUME NEW S \in SUBSET Nat, IsFiniteSet(S), NEW k \in Nat
  PROVE  IsFiniteSet(Oldest(k, S)) /\ Cardinality(Oldest(k, S)) <= k
<1> DEFINE T == Oldest(k, S)
           Older(j) == {i \in S : i < j}
           f == [j \in T |-> Cardinality(Older(j))]
<1>1. \A j : IsFiniteSet(Older(j)) /\ Cardinality(Older(j)) \in Nat
  <2>1. \A j : Older(j) \in SUBSET S
    OBVIOUS
  <2>2. \A j : IsFiniteSet(Older(j))
    <3> HIDE DEF Older
    <3> QED BY <2>1, FS_Subset
  <2> HIDE DEF Older
  <2> QED BY <2>2, FS_CardinalityType
<1>2. T \subseteq S /\ \A j \in T : Cardinality(Older(j)) < k
  BY DEF Oldest
<1>3. f \in [T -> 0 .. k - 1]
  BY <1>1, <1>2
<1>4. ASSUME NEW i \in T, NEW j \in T, i < j
      PROVE  f[i] # f[j]
  <2>1. Older(i) \in SUBSET Older(j) /\ i \in Older(j) /\ i \notin Older(i)
    <3>1. i \in Nat /\ j \in Nat /\ i \in S
      BY <1>2
    <3>2. \A x \in Nat : x < i => x < j
      BY <1>4, <3>1
    <3>3. ASSUME NEW x \in Older(i) PROVE x \in Older(j)
      BY <3>2
    <3>4. i \in Older(j) /\ i \notin Older(i)
      BY <1>4, <3>1
    <3> QED BY <3>3, <3>4
  <2>2. Cardinality(Older(j)) = Cardinality(Older(i)) => Older(j) = Older(i)
    BY <1>1, <1>2, <2>1, FS_Subset
  <2> QED BY <2>1, <2>2
<1>5. f \in Injection(T, 0 .. k - 1)
  <2>1. \A i, j \in T : f[i] = f[j] => i = j
    <3>1. \A i, j \in T : i \in Nat /\ j \in Nat
      BY <1>2
    <3> HIDE DEF T, f
    <3>2. \A i, j \in T : i < j \/ j < i \/ i = j
      BY <3>1
    <3> QED BY <1>4, <3>2
  <2> QED BY <1>3, <2>1 DEF Injection, IsInjective
<1>6. IsFiniteSet(0 .. k - 1) /\ Cardinality(0 .. k - 1) = k
  BY FS_Interval
<1> QED BY <1>5, <1>6, FS_Injection

\* A part of a small set is small.
LEMMA SmallSubset ==
  ASSUME NEW S, Small(S), NEW T \in SUBSET S
  PROVE  Small(T)
<1>1. IsFiniteSet(T) /\ Cardinality(T) <= Cardinality(S)
  BY FS_Subset DEF Small
<1>2. Cardinality(T) \in Nat /\ Cardinality(S) \in Nat
  BY <1>1, FS_CardinalityType DEF Small
<1> QED BY <1>1, <1>2, BatchAssumption DEF Small

\* One more fault pays for one more batch of orphans.
LEMMA OrphansGrow ==
  ASSUME OrphansInv, DbInv, NEW X, Small(X), Orphans' \in SUBSET (Orphans \cup X),
         crashes' + dbErrors' = crashes + dbErrors + 1
  PROVE  IsFiniteSet(Orphans') /\ OrphansBounded'
<1>1. /\ IsFiniteSet(Orphans \cup X)
      /\ Cardinality(Orphans \cup X) = Cardinality(Orphans) + Cardinality(X) - Cardinality(Orphans \cap X)
  BY FS_Union DEF OrphansInv, Small
<1>2. IsFiniteSet(Orphans \cap X)
  BY FS_Intersection DEF OrphansInv
<1>3. /\ Cardinality(Orphans) \in Nat /\ Cardinality(X) \in Nat
      /\ Cardinality(Orphans \cap X) \in Nat
  BY <1>2, FS_CardinalityType DEF OrphansInv, Small
<1>4. IsFiniteSet(Orphans') /\ Cardinality(Orphans') <= Cardinality(Orphans \cup X)
  BY <1>1, FS_Subset
<1>5. Cardinality(Orphans') \in Nat
  BY <1>4, FS_CardinalityType
<1>6. crashes \in Nat /\ dbErrors \in Nat /\ BatchLimit \in Nat
  BY BatchAssumption DEF DbInv, DbTypeOK, CompletionInv, CompletionTypeOK
<1>7. BatchLimit * (crashes' + dbErrors') = BatchLimit * (crashes + dbErrors) + BatchLimit
  <2>1. \A b, n \in Nat : b * (n + 1) = b * n + b
    OBVIOUS
  <2>2. crashes + dbErrors \in Nat
    BY <1>6
  <2> QED BY <1>6, <2>1, <2>2
<1>8. BatchLimit * (crashes + dbErrors) \in Nat
  BY <1>6
<1>9. Cardinality(Orphans) <= BatchLimit * (crashes + dbErrors) /\ Cardinality(X) <= BatchLimit
  BY DEF OrphansInv, OrphansBounded, Small
<1>10. Cardinality(Orphans') <= BatchLimit * (crashes' + dbErrors')
  <2> DEFINE c == Cardinality(Orphans)
             d == Cardinality(X)
             e == Cardinality(Orphans \cap X)
             u == Cardinality(Orphans \cup X)
             n == Cardinality(Orphans')
             a == BatchLimit * (crashes + dbErrors)
             b == BatchLimit * (crashes' + dbErrors')
  <2>1. /\ c \in Nat /\ d \in Nat /\ e \in Nat /\ n \in Nat /\ a \in Nat /\ BatchLimit \in Nat
        /\ u = c + d - e /\ n <= u /\ b = a + BatchLimit /\ c <= a /\ d <= BatchLimit
    BY <1>1, <1>3, <1>4, <1>5, <1>6, <1>7, <1>8, <1>9
  <2>2. n <= b
    <3> HIDE DEF a, b, c, d, e, u, n
    <3> QED BY <2>1
  <2> QED BY <2>2
<1> QED BY <1>4, <1>10 DEF OrphansBounded

\* Without a fault there is no new orphan to pay for.
LEMMA OrphansStill ==
  ASSUME OrphansInv, DbInv, Orphans' \in SUBSET Orphans, UNCHANGED <<crashes, dbErrors>>
  PROVE  IsFiniteSet(Orphans') /\ OrphansBounded'
<1>1. IsFiniteSet(Orphans') /\ Cardinality(Orphans') <= Cardinality(Orphans)
  BY FS_Subset DEF OrphansInv
<1>2. Cardinality(Orphans') \in Nat /\ Cardinality(Orphans) \in Nat
  BY <1>1, FS_CardinalityType DEF OrphansInv
<1>3. crashes \in Nat /\ dbErrors \in Nat /\ BatchLimit \in Nat
  BY BatchAssumption DEF DbInv, DbTypeOK, CompletionInv, CompletionTypeOK
<1>4. BatchLimit * (crashes + dbErrors) \in Nat
  BY <1>3
<1>5. Cardinality(Orphans) <= BatchLimit * (crashes + dbErrors)
  BY DEF OrphansInv, OrphansBounded
<1>6. BatchLimit * (crashes' + dbErrors') = BatchLimit * (crashes + dbErrors)
  OBVIOUS
<1>7. Cardinality(Orphans') <= BatchLimit * (crashes' + dbErrors')
  BY <1>1, <1>2, <1>4, <1>5, <1>6
<1> QED BY <1>1, <1>7 DEF OrphansBounded

\* Which jobs can be orphans after a step: old orphans, and processing jobs
\* that some worker has just stopped holding.
LEMMA NewOrphans ==
  ASSUME NEW X,
         \A j \in Jobs : updates'[j].status = "processing"
            /\ (\A w \in Workers : j \notin Owned(w)') =>
            \/ j \in X
            \/ updates[j].status = "processing" /\ (\A w \in Workers : j \notin Owned(w))
  PROVE  Orphans' \in SUBSET (Orphans \cup X)
BY DEF Orphans, Workers

\* Steps that move no job and write no update.
LEMMA SameHoldings ==
  ASSUME OrphansInv, UNCHANGED <<updates, sel, batch, job, crashes, dbErrors>>
  PROVE  OrphansInv'
BY DEF OrphansInv, BatchesInv, Small, Holding, Created, Orphans, Owned, OrphansBounded, Workers

\* The empty set is small.
LEMMA SmallEmpty == Small({})
BY FS_EmptySet, BatchAssumption DEF Small

\* A new row is queued.
LEMMA CreateQueuedOrphans ==
  ASSUME OrphansInv, DbInv, NEW j \in Jobs, NEW p \in Pairs, CreateQueued(j, p)
  PROVE  OrphansInv'
<1> USE DEF CreateQueued
<1>1. updates' = [updates EXCEPT ![j] = QueuedRow(p)] /\ updates \in UpdatesTable
  BY DEF DbInv, CompletionInv, CompletionTypeOK
<1>2. \A i \in Jobs : updates'[i] = IF i = j THEN QueuedRow(p) ELSE updates[i]
  BY <1>1 DEF UpdatesTable
<1>3. IsFiniteSet(Created')
  <2>1. Created' \in SUBSET (Created \cup {j})
    BY <1>2 DEF Created
  <2>2. IsFiniteSet(Created \cup {j})
    BY FS_AddElement DEF OrphansInv, BatchesInv
  <2> QED BY <2>1, <2>2, FS_Subset
<1>4. BatchesInv'
  BY <1>3 DEF OrphansInv, BatchesInv, Holding, completion
<1>5. Orphans' \in SUBSET Orphans
  BY <1>2 DEF Orphans, Owned, QueuedRow, completion
<1>6. IsFiniteSet(Orphans') /\ OrphansBounded'
  BY <1>5, OrphansStill
<1> QED BY <1>4, <1>6 DEF OrphansInv

\* The locking SELECT takes at most BatchLimit rows.
LEMMA ClaimSelectOrphans ==
  ASSUME OrphansInv, DbInv, NEW w \in Workers, ClaimSelect(w)
  PROVE  OrphansInv'
<1> USE DEF ClaimSelect
<1>1. UNCHANGED <<updates, batch, job, crashes, dbErrors>>
  BY DEF tables, completion
<1>2. Small(Oldest(BatchLimit, Claimable))
  <2>1. Claimable \in SUBSET Created /\ Claimable \in SUBSET Nat
    <3>1. \A j \in Claimable : j \in Jobs /\ updates[j].status = "queued"
      BY DEF Claimable, Queued
    <3>2. NoRow.status = "none"
      BY DEF NoRow
    <3>3. Claimable \in SUBSET Created
      BY <3>1, <3>2 DEF Created
    <3> QED BY <3>1, <3>3, JobsAssumption
  <2>2. IsFiniteSet(Claimable)
    BY <2>1, FS_Subset DEF OrphansInv, BatchesInv
  <2> QED BY <2>1, <2>2, OldestBounded, BatchAssumption DEF Small
<1>3. \A v \in Workers : sel'[v] = IF v = w THEN Oldest(BatchLimit, Claimable) ELSE sel[v]
  BY DEF DbInv, DbTypeOK
<1>4. sel[w] = {}
  BY DEF DbInv, WorkerLocalsOK
<1>5. BatchesInv'
  <2>1. Created' = Created
    BY <1>1 DEF Created
  <2>2. \A v \in Workers : Holding(v)' = Holding(v)
    BY <1>1 DEF Holding
  <2>3. \A v \in Workers : Small(sel'[v])
    BY <1>2, <1>3 DEF OrphansInv, BatchesInv
  <2> QED BY <2>1, <2>2, <2>3 DEF OrphansInv, BatchesInv, Workers, Small
<1>6. Orphans' \in SUBSET Orphans
  <2>1. \A v \in Workers : Owned(v) \in SUBSET Owned(v)'
    BY <1>1, <1>3, <1>4 DEF Owned
  <2> QED BY <1>1, <2>1 DEF Orphans, Workers
<1>7. IsFiniteSet(Orphans') /\ OrphansBounded'
  BY <1>1, <1>6, OrphansStill
<1> QED BY <1>5, <1>7 DEF OrphansInv

\* A claim hands its rows to the worker, or loses them to a fault.
LEMMA ClaimOrphans ==
  ASSUME OrphansInv, DbInv, NEW w \in Workers, ClaimCommit(w) \/ ClaimError(w), Created' = Created
  PROVE  OrphansInv'
<1>1. /\ mode[w] = "claim"
      /\ updates' \in {updates, ClaimRows(updates, sel[w])}
      /\ UNCHANGED <<completion, crashes>>
      /\ sel' = [sel EXCEPT ![w] = {}]
      /\ \/ /\ dbErrors' = dbErrors
            /\ batch' = [batch EXCEPT ![w] = sel[w]]
         \/ dbErrors' = dbErrors + 1 /\ batch' = batch
  BY DEF ClaimCommit, ClaimError, DbError
<1>2. /\ \A v \in Workers : sel'[v] = IF v = w THEN {} ELSE sel[v]
      /\ \A v \in Workers : v # w => batch'[v] = batch[v]
      /\ batch'[w] = {} \/ batch'[w] = sel[w]
      /\ dbErrors' = dbErrors => batch'[w] = sel[w]
  BY <1>1 DEF DbInv, DbTypeOK, WorkerLocalsOK, CompletionInv, CompletionTypeOK
<1>3. batch[w] = {} /\ job[w] = NoJob /\ job' = job
  BY <1>1 DEF DbInv, WorkerLocalsOK, CompletionInv, LocalsOK, Workers, completion
<1>4. Small(sel[w])
  BY DEF OrphansInv, BatchesInv
<1>5. BatchesInv'
  <2>1. \A v \in Workers : Small(sel'[v])
    BY <1>2, SmallEmpty DEF OrphansInv, BatchesInv
  <2>2. \A v \in Workers : v # w => Holding(v)' = Holding(v)
    BY <1>2, <1>3 DEF Holding
  <2>3. Holding(w)' \in SUBSET sel[w]
    BY <1>2, <1>3 DEF Holding
  <2>4. Small(Holding(w)')
    BY <1>4, <2>3, SmallSubset
  <2>5. \A v \in Workers : Small(Holding(v)')
    BY <2>2, <2>4 DEF OrphansInv, BatchesInv
  <2> QED BY <2>1, <2>5 DEF OrphansInv, BatchesInv, Workers, Small
<1>6. \A j \in Jobs : updates'[j] # updates[j] => j \in sel[w]
  BY <1>1 DEF ClaimRows, DbInv, CompletionInv, CompletionTypeOK, UpdatesTable
<1>7. \A j \in sel[w] : updates[j].status # "processing"
  BY DEF DbInv, Ownership
<1>8. Orphans' \in SUBSET (Orphans \cup sel[w])
  <2>1. \A v \in Workers : \A j \in Owned(v) : j \in sel[w] \/ j \in Owned(v)'
    BY <1>2, <1>3 DEF Owned
  <2> QED BY <1>6, <2>1, NewOrphans
<1>9. CASE dbErrors' = dbErrors + 1
  <2>1. crashes' + dbErrors' = crashes + dbErrors + 1
    BY <1>1, <1>9 DEF DbInv, DbTypeOK, CompletionInv, CompletionTypeOK
  <2>2. IsFiniteSet(Orphans') /\ OrphansBounded'
    BY <1>4, <1>8, <2>1, OrphansGrow
  <2> QED BY <1>5, <2>2 DEF OrphansInv
<1>10. CASE dbErrors' = dbErrors
  <2>1. \A j \in sel[w] : j \in Owned(w)'
    BY <1>2, <1>10 DEF Owned
  <2>2. Orphans' \in SUBSET Orphans
    BY <1>8, <2>1 DEF Orphans, Workers
  <2>3. IsFiniteSet(Orphans') /\ OrphansBounded'
    BY <1>1, <1>10, <2>2, OrphansStill
  <2> QED BY <1>5, <2>3 DEF OrphansInv
<1> QED BY <1>1, <1>9, <1>10

\* The loop takes a job from its batch and goes on holding it.
LEMMA StartJobOrphans ==
  ASSUME OrphansInv, DbInv, NEW w \in Workers, NEW j \in Jobs, StartJob(w, j)
  PROVE  OrphansInv'
<1>1. UNCHANGED <<updates, sel, crashes, dbErrors>>
  BY StartJobInv DEF StartJob, tables
<1>2. j \in batch[w] /\ job[w] = NoJob /\ w \in Procs /\ j # NoJob
  BY JobsAssumption DEF StartJob, Goto, DbInv, CompletionInv, LocalsOK, Workers, NoJob
<1>3. \A v \in Workers : /\ batch'[v] = IF v = w THEN batch[w] \ {j} ELSE batch[v]
                         /\ job'[v] = IF v = w THEN j ELSE job[v]
  BY DEF StartJob, DbInv, DbTypeOK, CompletionInv, CompletionTypeOK, Workers
<1>4. \A v \in Workers : Holding(v)' = Holding(v) /\ Owned(v)' = Owned(v)
  BY <1>1, <1>2, <1>3 DEF Holding, Owned
<1>5. BatchesInv'
  BY <1>1, <1>4 DEF OrphansInv, BatchesInv, Created, Small, Workers
<1>6. Orphans' \in SUBSET Orphans
  BY <1>1, <1>4 DEF Orphans, Workers
<1>7. IsFiniteSet(Orphans') /\ OrphansBounded'
  BY <1>1, <1>6, OrphansStill
<1> QED BY <1>5, <1>7 DEF OrphansInv

\* A step of CompleteQuoteUpdate keeps the job in hand or finishes it; a fault
\* drops it.
LEMMA CompleteOrphans ==
  ASSUME OrphansInv, DbInv, NEW w \in Workers, Complete(w), Created' = Created
  PROVE  OrphansInv'
<1>1. w \in Procs /\ (CompletionStep(w) \/ CompletionFault(w)) /\ UNCHANGED <<sel, batch, crashes>>
  BY DEF Complete, Workers
<1>2. /\ \A o \in Procs \ {w} : job'[o] = job[o]
      /\ pc'[w] # "idle" => job'[w] = job[w] /\ updates' = updates
      /\ \A i \in Jobs : i # job[w] => updates'[i] = updates[i]
      /\ updates' = updates \/ updates'[job[w]].status \in Terminal
  BY <1>1, CompletionEffect DEF DbInv
<1>3. pc'[w] = "idle" => job'[w] = NoJob
  BY <1>1, CompleteInv DEF DbInv, CompletionInv, LocalsOK
<1>4. \A v \in Workers : Holding(v)' \in SUBSET Holding(v)
  BY <1>1, <1>2, <1>3 DEF Holding, Workers
<1>5. BatchesInv'
  <2>1. \A v \in Workers : Small(Holding(v)')
    BY <1>4, SmallSubset DEF OrphansInv, BatchesInv
  <2> QED BY <1>1, <2>1 DEF OrphansInv, BatchesInv, Small, Workers
<1>6. Orphans' \in SUBSET (Orphans \cup {job[w]})
  <2>1. \A v \in Workers : \A j \in Owned(v) : j \in {job[w]} \/ j \in Owned(v)'
    BY <1>1, <1>2, <1>3 DEF Owned, Workers
  <2> QED BY <1>2, <2>1, NewOrphans
<1>7. CASE CompletionStep(w)
  <2>1. dbErrors' = dbErrors
    BY <1>7 DEF CompletionStep, FetchOk, FetchErr, MarkFailed, BeginTx, AppendHistory, Upsert,
                MarkDone, Commit
  <2>2. pc'[w] # "idle" \/ updates'[job[w]].status \in Terminal
    BY <1>1, <1>7, CompletionStepEnds DEF DbInv
  <2>3. ASSUME job[w] \in Orphans' PROVE FALSE
    <3>1. /\ job[w] \in Jobs /\ updates'[job[w]].status = "processing"
          /\ job[w] \notin {job'[w]} \ {NoJob}
      BY <1>1, <2>3 DEF Orphans, Owned, Workers
    <3>2. job'[w] = job[w] /\ job[w] # NoJob
      BY <1>2, <2>2, <3>1, JobsAssumption DEF Terminal, NoJob
    <3> QED BY <3>1, <3>2
  <2>4. Orphans' \in SUBSET Orphans
    BY <1>6, <2>3
  <2>5. IsFiniteSet(Orphans') /\ OrphansBounded'
    BY <1>1, <2>1, <2>4, OrphansStill
  <2> QED BY <1>5, <2>5 DEF OrphansInv
<1>8. CASE CompletionFault(w)
  <2>1. crashes' + dbErrors' = crashes + dbErrors + 1
    BY <1>1, <1>8 DEF CompletionFault, MarkFailedError, TxError, DbError,
                      DbInv, DbTypeOK, CompletionInv, CompletionTypeOK
  <2>2. Small({job[w]})
    <3>1. IsFiniteSet({job[w]}) /\ Cardinality({job[w]}) = 1
      BY FS_Singleton
    <3> QED BY <3>1, BatchAssumption DEF Small
  <2>3. IsFiniteSet(Orphans') /\ OrphansBounded'
    BY <1>6, <2>1, <2>2, OrphansGrow
  <2> QED BY <1>5, <2>3 DEF OrphansInv
<1> QED BY <1>1, <1>7, <1>8

\* A crash drops the batch; the rows it had only locked are still queued.
LEMMA CrashOrphans ==
  ASSUME OrphansInv, DbInv, NEW w \in Workers, Crash(w)
  PROVE  OrphansInv'
<1>1. w \in Procs /\ Reset(w) /\ UNCHANGED <<updates, dbErrors>> /\ crashes' = crashes + 1
  BY DEF Crash, tables, Workers
<1>2. \A v \in Workers : /\ sel'[v] = IF v = w THEN {} ELSE sel[v]
                         /\ batch'[v] = IF v = w THEN {} ELSE batch[v]
                         /\ job'[v] = IF v = w THEN NoJob ELSE job[v]
  BY <1>1 DEF Crash, Reset, DbInv, DbTypeOK, CompletionInv, CompletionTypeOK, Workers
<1>3. BatchesInv'
  <2>1. \A v \in Workers : Small(sel'[v])
    BY <1>2, SmallEmpty DEF OrphansInv, BatchesInv
  <2>2. \A v \in Workers : Holding(v)' \in SUBSET Holding(v)
    BY <1>2 DEF Holding
  <2>3. \A v \in Workers : Small(Holding(v)')
    BY <2>2, SmallSubset DEF OrphansInv, BatchesInv
  <2>4. Created' = Created
    BY <1>1 DEF Created
  <2> QED BY <2>1, <2>3, <2>4 DEF OrphansInv, BatchesInv, Small, Workers
<1>4. Orphans' \in SUBSET (Orphans \cup Holding(w))
  <2>1. \A j \in sel[w] : updates[j].status = "queued"
    BY DEF DbInv, Ownership
  <2>2. \A v \in Workers : \A j \in Owned(v) : j \in Holding(w) \/ j \in sel[w] \/ j \in Owned(v)'
    BY <1>2 DEF Owned, Holding
  <2> QED BY <1>1, <2>1, <2>2, NewOrphans
<1>5. crashes' + dbErrors' = crashes + dbErrors + 1
  BY <1>1 DEF DbInv, DbTypeOK, CompletionInv, CompletionTypeOK
<1>6. Small(Holding(w))
  BY DEF OrphansInv, BatchesInv
<1>7. IsFiniteSet(Orphans') /\ OrphansBounded'
  BY <1>4, <1>5, <1>6, OrphansGrow
<1> QED BY <1>3, <1>7 DEF OrphansInv

\* Every step pays for the orphans it leaves.
LEMMA NextOrphans ==
  ASSUME OrphansInv, DbInv, [Next]_vars
  PROVE  OrphansInv'
<1>1. ASSUME NEW w \in Workers, PollEmpty(w) \/ EndBatch(w) \/ Restart(w)
      PROVE  OrphansInv'
  BY <1>1, SameHoldings DEF PollEmpty, EndBatch, Restart, vars, tables, completion
<1>2. CASE Provider \/ UNCHANGED vars
  BY <1>2, SameHoldings DEF Provider, Tick, vars, tables, completion
<1>3. WorkerNext => Created' = Created
  BY WorkersKeepCreated
<1>4. CASE WorkerNext
  BY <1>1, <1>2, <1>3, <1>4, ClaimSelectOrphans, ClaimOrphans, StartJobOrphans, CompleteOrphans, CrashOrphans
  DEF WorkerNext
<1> QED BY <1>2, <1>4, CreateQueuedOrphans DEF Next

\* However many faults of whatever kind hit the workers, they leave at most one
\* batch of updates behind each.
THEOREM DbOrphansBounded == Spec => []OrphansBounded
<1>1. Init => OrphansInv
  <2> SUFFICES ASSUME Init PROVE OrphansInv
    OBVIOUS
  <2>1. Created = {} /\ Orphans = {}
    BY DEF Init, CompletionInit, Created, Orphans, NoRow
  <2>2. \A w \in Workers : sel[w] = {} /\ Holding(w) = {}
    BY DEF Init, CompletionInit, Holding, Workers
  <2>3. Cardinality(Orphans) = 0 /\ BatchLimit * (crashes + dbErrors) = 0
    BY <2>1, FS_EmptySet, BatchAssumption DEF Init, CompletionInit
  <2> QED BY <2>1, <2>2, <2>3, FS_EmptySet, SmallEmpty DEF OrphansInv, BatchesInv, OrphansBounded
<1>2. OrphansInv /\ DbInv /\ [Next]_vars => OrphansInv'
  BY NextOrphans
<1>3. OrphansInv => OrphansBounded
  BY DEF OrphansInv
<1> QED BY <1>1, <1>2, <1>3, DbInvariant, PTL DEF Spec
============================================================================
