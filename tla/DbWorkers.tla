----------------------------- MODULE DbWorkers -----------------------------
(***************************************************************************)
(* The db worker mode: API processes insert queued updates, and several    *)
(* worker processes (DbWorker of internal/infrastructure/worker) poll the  *)
(* same quote_updates table.  On each tick a worker runs ProcessQueueBatch:*)
(* it claims a batch with FOR UPDATE SKIP LOCKED and completes the jobs of *)
(* the batch one after the other.  Workers crash and are restarted; any    *)
(* statement may fail.                                                     *)
(***************************************************************************)
EXTENDS QuoteCompletion

CONSTANTS BatchLimit,    \* WORKER_BATCH_LIMIT
          MaxCrashes     \* bound on worker crashes

ASSUME BatchAssumption == BatchLimit \in Nat \ {0} /\ MaxCrashes \in Nat

VARIABLES mode,       \* per worker: "poll" between ticks, "claim" inside
                      \* ClaimQueued, "loop" inside the batch, "down"
          sel,        \* rows locked by a claim in progress
          batch,      \* claimed jobs that the loop has not reached
          crashes     \* crashes so far

vars == <<tables, clock, completion, dbErrors, mode, sel, batch, crashes>>

Workers == Procs

TypeOK ==
  /\ CompletionTypeOK
  /\ mode \in [Workers -> {"poll", "claim", "loop", "down"}]
  /\ sel \in [Workers -> SUBSET Jobs]
  /\ batch \in [Workers -> SUBSET Jobs]
  /\ crashes \in 0..MaxCrashes

Init ==
  /\ CompletionInit
  /\ mode = [w \in Workers |-> "poll"]
  /\ sel = [w \in Workers |-> {}]
  /\ batch = [w \in Workers |-> {}]
  /\ crashes = 0

\* The INSERT of an API process.  Inserts commit in any order of requested_at.
CreateQueued(j, p) ==
  /\ updates[j] = NoRow
  /\ updates' = [updates EXCEPT ![j] = QueuedRow(p)]
  /\ UNCHANGED <<quotes, history, clock, completion, dbErrors, mode, sel, batch, crashes>>

----------------------------------------------------------------------------
(* ClaimQueued: the locking SELECT, then the UPDATE that commits. *)

Locked == UNION {sel[w] : w \in Workers}
Queued == {j \in Jobs : updates[j].status = "queued"}

\* Mutants of Claimable: no lock is taken, or abandoned jobs are claimed too.
ClaimableUnlocked == Queued
ClaimableProcessing == {j \in Jobs : updates[j].status \in {"queued", "processing"}} \ Locked

\* WHERE status = 'queued' ... FOR UPDATE SKIP LOCKED.
Claimable == Queued \ Locked

\* A tick that finds no row to claim.
PollEmpty(w) ==
  /\ mode[w] = "poll"
  /\ Claimable = {}
  /\ UNCHANGED vars

ClaimSelect(w) ==
  /\ mode[w] = "poll"
  /\ Claimable # {}
  /\ sel' = [sel EXCEPT ![w] = Oldest(BatchLimit, Claimable)]
  /\ mode' = [mode EXCEPT ![w] = "claim"]
  /\ UNCHANGED <<tables, clock, completion, dbErrors, batch, crashes>>

ClaimCommit(w) ==
  /\ mode[w] = "claim"
  /\ updates' = ClaimRows(updates, sel[w])
  /\ batch' = [batch EXCEPT ![w] = sel[w]]
  /\ sel' = [sel EXCEPT ![w] = {}]
  /\ mode' = [mode EXCEPT ![w] = "loop"]
  /\ UNCHANGED <<quotes, history, clock, completion, dbErrors, crashes>>

\* The statement fails, or it commits and its rows cannot all be read:
\* ProcessQueueBatch returns and drops the rows it has.
ClaimError(w) ==
  /\ mode[w] = "claim"
  /\ DbError
  /\ updates' \in {updates, ClaimRows(updates, sel[w])}
  /\ sel' = [sel EXCEPT ![w] = {}]
  /\ mode' = [mode EXCEPT ![w] = "poll"]
  /\ UNCHANGED <<quotes, history, clock, completion, batch, crashes>>

----------------------------------------------------------------------------
(* The loop of ProcessQueueBatch. *)

\* Next job of the batch (RETURNING has no order): UpdateStatus(processing),
\* then CompleteQuoteUpdate.  The claim has already written this status, so
\* the statement whose error is ignored has the same effect when it fails.
StartJob(w, j) ==
  /\ mode[w] = "loop"
  /\ j \in batch[w]
  /\ Goto(w, "idle", "fetch")
  /\ job' = [job EXCEPT ![w] = j]
  /\ batch' = [batch EXCEPT ![w] = @ \ {j}]
  /\ updates' = UpdateStatus(updates, j, "processing", "null")
  /\ UNCHANGED <<quotes, history, clock, quote, staged, dbErrors, mode, sel, crashes>>

\* Mutant of EndBatch: the loop stops at the first job that was completed.
EndBatchEarly(w) ==
  /\ mode[w] = "loop"
  /\ pc[w] = "idle"
  /\ mode' = [mode EXCEPT ![w] = "poll"]
  /\ batch' = [batch EXCEPT ![w] = {}]
  /\ UNCHANGED <<tables, clock, completion, dbErrors, sel, crashes>>

\* ProcessQueueBatch returns; tick logs its error, if any.
EndBatch(w) ==
  /\ mode[w] = "loop"
  /\ pc[w] = "idle"
  /\ batch[w] = {}
  /\ mode' = [mode EXCEPT ![w] = "poll"]
  /\ UNCHANGED <<tables, clock, completion, dbErrors, sel, batch, crashes>>

Complete(w) ==
  /\ CompletionStep(w) \/ CompletionFault(w)
  /\ UNCHANGED <<mode, sel, batch, crashes>>

----------------------------------------------------------------------------
(* The worker process dies, wherever it is, and is started again. *)

Crash(w) ==
  /\ mode[w] # "down"
  /\ crashes < MaxCrashes
  /\ crashes' = crashes + 1
  /\ mode' = [mode EXCEPT ![w] = "down"]
  /\ sel' = [sel EXCEPT ![w] = {}]
  /\ batch' = [batch EXCEPT ![w] = {}]
  /\ Reset(w)
  /\ UNCHANGED <<tables, clock, dbErrors>>

Restart(w) ==
  /\ mode[w] = "down"
  /\ mode' = [mode EXCEPT ![w] = "poll"]
  /\ UNCHANGED <<tables, clock, completion, dbErrors, sel, batch, crashes>>

Provider == Tick /\ UNCHANGED <<mode, sel, batch, crashes>>

WorkerNext ==
  \/ \E w \in Workers :
       \/ PollEmpty(w) \/ ClaimSelect(w) \/ ClaimCommit(w) \/ ClaimError(w)
       \/ \E j \in Jobs : StartJob(w, j)
       \/ EndBatch(w) \/ Complete(w)
       \/ Crash(w) \/ Restart(w)
  \/ Provider

Next ==
  \/ \E j \in Jobs, p \in Pairs : CreateQueued(j, p)
  \/ WorkerNext

Spec == Init /\ [][Next]_vars

\* A running worker keeps executing: its ticker fires, its statements and its
\* fetch return (the HTTP client and its backoff are bounded), and a worker
\* that went down is started again.  Faults and new requests are never forced.
WorkerStep(w) ==
  \/ ClaimSelect(w) \/ ClaimCommit(w)
  \/ \E j \in Jobs : StartJob(w, j)
  \/ EndBatch(w)
  \/ CompletionStep(w) /\ UNCHANGED <<mode, sel, batch, crashes>>
  \/ Restart(w)

FairSpec == Spec /\ \A w \in Workers : WF_vars(WorkerStep(w))

----------------------------------------------------------------------------
(* Safety. *)

\* Jobs a worker will still complete.
Owned(w) == sel[w] \cup batch[w] \cup ({job[w]} \ {NoJob})
Orphans == {j \in Jobs : /\ updates[j].status = "processing"
                         /\ \A w \in Workers : j \notin Owned(w)}

\* Horizontal scaling: however the polls of several workers interleave, no
\* update is in the hands of two workers, and a worker only holds updates
\* that are not finished.
ClaimExclusive ==
  /\ \A v, w \in Workers : v # w => Owned(v) \cap Owned(w) = {}
  /\ \A w \in Workers : \A j \in Owned(w) : updates[j].status \in {"queued", "processing"}

\* A fault costs at most the batch of the worker it hits: updates that stay in
\* processing with nobody working on them are bounded by the faults so far.
OrphansBounded == Cardinality(Orphans) <= BatchLimit * (crashes + dbErrors)

\* Nothing in the code looks at a processing row that no worker holds: such an
\* update keeps its row unchanged, over restarts too, where README promises that
\* this mode loses no job.
OrphanStays ==
  [][\A j \in Orphans : updates'[j] = updates[j] /\ j \in Orphans']_vars

----------------------------------------------------------------------------
(* Liveness. *)

\* With crashes and database errors, every queued update is eventually
\* finished or orphaned: it never stays queued, no worker blocks on another
\* one's locks, and (with OrphansBounded) all are finished if nothing fails.
EveryJobCompletesOrIsOrphaned ==
  \A j \in Jobs : updates[j].status = "queued" ~>
                    (updates[j].status \in Terminal \/ j \in Orphans)
============================================================================
