------------------------- MODULE GrpcDispatchProofs -------------------------
(***************************************************************************)
(* The grpc mode for any number of updates, crashes, database errors and   *)
(* connections: type correctness, the goroutine of an update works on that *)
(* update alone, and the implementation of the lifecycle.                  *)
(***************************************************************************)
EXTENDS GrpcDispatch, QuoteCompletionProofs

GrpcTypeOK ==
  /\ handler \in [Jobs -> {"none", "respond", "dispatch", "ended"}]
  /\ rpc \in [Jobs -> {"none", "called", "answered"}]
  /\ answer \in [Jobs -> Times \cup {NoQuote}]
  /\ crashes \in 0..MaxCrashes

\* No row exists before its handler runs, it waits for the dispatch in queued, and
\* an answer under way is a quote.
GoroutinesOK ==
  \A j \in Jobs :
    /\ handler[j] = "none" => updates[j] = NoRow
    /\ handler[j] \in {"respond", "dispatch"} => updates[j].status = "queued" /\ pc[j] = "idle"
    /\ rpc[j] = "answered" => answer[j] \in Times

\* The inductive invariant: that a goroutine owns its update is what keeps two of
\* them from completing the same one, as CompletionInv wants.
GrpcInv == CompletionInv /\ GrpcTypeOK /\ GoroutinesOK /\ OwnUpdate

----------------------------------------------------------------------------
(* One lemma per group of actions. *)

\* Nothing was requested yet.
LEMMA GrpcInitInv ==
  ASSUME Init
  PROVE  GrpcInv /\ LC!Init
<1>1. CompletionInv /\ LC!Init
  BY CompletionInitInv DEF Init
<1>2. GrpcTypeOK
  BY GrpcAssumption DEF Init, GrpcTypeOK
<1>3. GoroutinesOK /\ OwnUpdate
  BY GrpcAssumption DEF Init, CompletionInit, GoroutinesOK, OwnUpdate
<1> QED BY <1>1, <1>2, <1>3 DEF GrpcInv

\* The INSERT of a handler, whether it learns of it or not: its update has no
\* goroutine.
LEMMA InsertInv ==
  ASSUME GrpcInv, NEW j \in Jobs, NEW p \in Pairs, Insert(j, p) \/ InsertError(j, p)
  PROVE  GrpcInv' /\ (LC!Request(j, p) \/ UNCHANGED tables)
<1> USE DEF GrpcInv
<1>1. /\ handler[j] = "none"
      /\ UNCHANGED <<quotes, history, clock, completion, pc, job, rpc, answer, crashes>>
      /\ \/ handler' = [handler EXCEPT ![j] = "ended"] /\ updates' = updates
         \/ /\ handler' \in {[handler EXCEPT ![j] = "respond"], [handler EXCEPT ![j] = "ended"]}
            /\ updates' = [updates EXCEPT ![j] = QueuedRow(p)]
      /\ dbErrors' \in 0..MaxDbErrors
  BY DbErrorsAssumption DEF Insert, InsertError, DbError, CompletionInv, CompletionTypeOK, completion
<1>2. updates[j] = NoRow /\ ~ LC!Unfinished(j)
  BY <1>1 DEF GoroutinesOK, NoRow, LC!Unfinished
<1>3. QueuedRow(p) \in UpdateRow /\ updates \in UpdatesTable
  BY DEF QueuedRow, UpdateRow, Status, CompletionInv, CompletionTypeOK
<1>4. /\ updates' \in UpdatesTable
      /\ updates' = updates \/ updates'[j] = QueuedRow(p)
      /\ \A i \in Jobs : i # j => updates'[i] = updates[i]
  BY <1>1, <1>3 DEF UpdatesTable
<1>5. pc[j] = "idle" /\ \A i \in Procs : pc[i] # "idle" => job[i] = i /\ i \in Jobs /\ i # j
  BY <1>2, GrpcAssumption DEF OwnUpdate
<1>6. CompletionInv'
  <2>1. \A i \in Procs : pc[i] # "idle" =>
          /\ updates'[job[i]].pair = updates[job[i]].pair
          /\ updates'[job[i]].status \in {"queued", "processing"}
    BY <1>4, <1>5 DEF CompletionInv, JobsOpen, LC!Unfinished
  <2> QED BY <1>1, <1>4, <2>1, CompletionFrame
<1>7. GrpcTypeOK'
  BY <1>1 DEF GrpcTypeOK
<1>8. /\ \A i \in Jobs : i # j => handler'[i] = handler[i]
      /\ handler'[j] = "ended" \/ (handler'[j] = "respond" /\ updates'[j] = QueuedRow(p))
  BY <1>1, <1>3 DEF GrpcTypeOK, UpdatesTable
<1>9. GoroutinesOK' /\ OwnUpdate'
  BY <1>1, <1>4, <1>5, <1>8 DEF GoroutinesOK, OwnUpdate, LC!Unfinished, QueuedRow
<1>10. LC!Request(j, p) \/ UNCHANGED tables
  BY <1>1, <1>2, SameInsert DEF LC!Request, tables
<1> QED BY <1>6, <1>7, <1>9, <1>10

\* The 202.
LEMMA AcceptInv ==
  ASSUME GrpcInv, NEW j \in Jobs, Accept(j)
  PROVE  GrpcInv' /\ UNCHANGED tables
<1> USE DEF GrpcInv, Accept
<1>1. CompletionInv'
  BY FrameInv
<1>2. UNCHANGED <<updates, pc, job>>
  BY DEF tables, completion
<1>3. GrpcTypeOK'
  BY DEF GrpcTypeOK
<1>4. GoroutinesOK' /\ OwnUpdate'
  BY <1>2 DEF GoroutinesOK, OwnUpdate, LC!Unfinished, GrpcTypeOK
<1> QED BY <1>1, <1>3, <1>4

\* The goroutine of an update starts.
LEMMA DispatchInv ==
  ASSUME GrpcInv, NEW j \in Jobs, Dispatch(j)
  PROVE  GrpcInv' /\ UNCHANGED tables
<1> USE DEF GrpcInv
<1>1. /\ handler[j] = "dispatch" /\ handler' = [handler EXCEPT ![j] = "ended"]
      /\ pc[j] = "idle" /\ pc' = [pc EXCEPT ![j] = "fetch"]
      /\ job' = [job EXCEPT ![j] = j]
      /\ rpc' = [rpc EXCEPT ![j] = "called"]
      /\ UNCHANGED <<tables, updates, clock, quote, staged, dbErrors, answer, crashes>>
  BY DEF Dispatch, Goto, tables
<1>2. j \in Procs /\ updates[j].status = "queued"
  BY <1>1, GrpcAssumption DEF GoroutinesOK
<1>3. \A i \in Procs : job[i] # j
  BY <1>1, GrpcAssumption, JobsAssumption DEF OwnUpdate, CompletionInv, LocalsOK, NoJob
<1>4. CompletionInv'
  BY <1>1, <1>2, <1>3, StartInv
<1>5. GrpcTypeOK'
  BY <1>1 DEF GrpcTypeOK
<1>6. GoroutinesOK'
  BY <1>1, GrpcAssumption DEF GoroutinesOK, GrpcTypeOK, CompletionInv, CompletionTypeOK
<1>7. OwnUpdate'
  BY <1>1, <1>2, GrpcAssumption DEF OwnUpdate, LC!Unfinished, CompletionInv, CompletionTypeOK
<1> QED BY <1>1, <1>4, <1>5, <1>6, <1>7 DEF tables

\* The rate server answers.
LEMMA ServerAnswerInv ==
  ASSUME GrpcInv, NEW j \in Jobs, ServerAnswer(j)
  PROVE  GrpcInv' /\ UNCHANGED tables
<1> USE DEF GrpcInv, ServerAnswer
<1>1. CompletionInv'
  BY FrameInv
<1>2. clock \in Times /\ UNCHANGED <<updates, pc, job>>
  BY DEF CompletionInv, CompletionTypeOK, tables, completion
<1>3. GrpcTypeOK'
  BY <1>2 DEF GrpcTypeOK
<1>4. GoroutinesOK' /\ OwnUpdate'
  BY <1>2 DEF GoroutinesOK, OwnUpdate, LC!Unfinished, GrpcTypeOK
<1> QED BY <1>1, <1>3, <1>4

\* The answer reaches the goroutine: FetchOk with the quote of the answer.
LEMMA DeliverInv ==
  ASSUME GrpcInv, NEW j \in Jobs, Deliver(j)
  PROVE  GrpcInv' /\ UNCHANGED tables
<1> USE DEF GrpcInv
<1>1. /\ pc[j] = "fetch" /\ pc' = [pc EXCEPT ![j] = "begin"]
      /\ quote' = [quote EXCEPT ![j] = answer[j]]
      /\ rpc' = [rpc EXCEPT ![j] = "none"] /\ answer' = [answer EXCEPT ![j] = NoQuote]
      /\ UNCHANGED <<tables, updates, quotes, history, clock, job, staged, dbErrors, handler, crashes>>
  BY DEF Deliver, Goto, HangUp, tables
<1>2. j \in Procs /\ answer[j] \in Times
  BY GrpcAssumption DEF Deliver, GoroutinesOK
<1>3. CompletionInv'
  <2> USE DEF CompletionInv
  <2>1. CompletionTypeOK'
    BY <1>1, <1>2 DEF CompletionTypeOK, Labels
  <2>2. LocalsOK'
    BY <1>1, <1>2 DEF LocalsOK, CompletionTypeOK, Appended, InTx, Times, NoQuote
  <2>3. JobsOpen'
    BY <1>1 DEF JobsOpen, LC!Unfinished, CompletionTypeOK
  <2>4. \A o \in Procs : pc'[o] \in Appended => pc[o] \in Appended /\ MyRow(o)' = MyRow(o)
    BY <1>1 DEF MyRow, JobPair, CompletionTypeOK, Appended
  <2>5. StagedOK'
    BY <1>1, <2>4 DEF StagedOK
  <2> QED BY <2>1, <2>2, <2>3, <2>5
<1>4. GrpcTypeOK'
  BY <1>1 DEF GrpcTypeOK
<1>5. GoroutinesOK' /\ OwnUpdate'
  BY <1>1, GrpcAssumption DEF GoroutinesOK, OwnUpdate, LC!Unfinished, GrpcTypeOK, CompletionInv, CompletionTypeOK
<1> QED BY <1>1, <1>3, <1>4, <1>5

\* Every other step of the goroutine: a failed call, a statement, a fault.
LEMMA GoroutineInv ==
  ASSUME GrpcInv, NEW j \in Jobs,
         CompletionStep(j) \/ CompletionFault(j),
         UNCHANGED <<handler, crashes>>, UNCHANGED <<rpc, answer>> \/ HangUp(j)
  PROVE  GrpcInv' /\ [LC!Next]_LC!vars
<1> USE DEF GrpcInv
<1>1. j \in Procs
  BY GrpcAssumption
<1>2. CompletionInv' /\ [LC!Next]_LC!vars
  BY <1>1, CompletionImplementsLifecycle
<1>3. /\ pc[j] # "idle"
      /\ \A o \in Procs \ {j} : pc'[o] = pc[o] /\ job'[o] = job[o]
      /\ pc'[j] # "idle" => job'[j] = job[j] /\ updates' = updates
      /\ \A i \in Jobs : i # job[j] => updates'[i] = updates[i]
  BY <1>1, CompletionEffect
<1>4. job[j] = j /\ LC!Unfinished(j)
  BY <1>3 DEF OwnUpdate
<1>5. GrpcTypeOK'
  BY DEF GrpcTypeOK, HangUp
<1>6. handler[j] = "ended"
  BY <1>3, <1>4 DEF GoroutinesOK, GrpcTypeOK, LC!Unfinished, NoRow
<1>7. GoroutinesOK'
  BY <1>3, <1>4, <1>6, GrpcAssumption DEF GoroutinesOK, GrpcTypeOK, HangUp
<1>8. OwnUpdate'
  BY <1>3, <1>4, GrpcAssumption DEF OwnUpdate, LC!Unfinished
<1> QED BY <1>2, <1>5, <1>7, <1>8

\* The API process dies with its goroutines.
LEMMA CrashInv ==
  ASSUME GrpcInv, Crash
  PROVE  GrpcInv' /\ UNCHANGED tables
<1> USE DEF GrpcInv, Crash
<1>1. CompletionInv'
  BY AllResetInv, GrpcAssumption
<1>2. GrpcTypeOK'
  BY GrpcAssumption DEF GrpcTypeOK
<1>3. GoroutinesOK' /\ OwnUpdate'
  BY DEF GoroutinesOK, OwnUpdate, LC!Unfinished, GrpcTypeOK, tables
<1> QED BY <1>1, <1>2, <1>3

\* Every step of the grpc mode keeps the invariant and is a step or a stutter of
\* the lifecycle.
LEMMA GrpcNextInv ==
  ASSUME GrpcInv, [Next]_vars
  PROVE  GrpcInv' /\ [LC!Next]_LC!vars
<1> USE DEF LC!vars, tables
<1>1. CASE UNCHANGED vars
  <2>1. CompletionInv'
    BY <1>1, FrameInv DEF vars, GrpcInv
  <2> QED BY <1>1, <2>1 DEF vars, grpc, completion, GrpcInv, GrpcTypeOK, GoroutinesOK, OwnUpdate, LC!Unfinished
<1>2. CASE Provider
  <2>1. CompletionInv' /\ UNCHANGED tables
    BY <1>2, TickInv DEF Provider, GrpcInv
  <2> QED BY <1>2, <2>1 DEF Provider, Tick, grpc, completion, GrpcInv, GrpcTypeOK, GoroutinesOK, OwnUpdate,
                            LC!Unfinished
<1>3. ASSUME NEW j \in Jobs, NEW p \in Pairs, Insert(j, p) \/ InsertError(j, p)
      PROVE  GrpcInv' /\ [LC!Next]_LC!vars
  BY <1>3, InsertInv DEF LC!Next
<1>4. ASSUME NEW j \in Jobs, Accept(j) \/ Dispatch(j)
      PROVE  GrpcInv' /\ [LC!Next]_LC!vars
  BY <1>4, AcceptInv, DispatchInv
<1>5. ASSUME NEW j \in Jobs, ServerAnswer(j)
      PROVE  GrpcInv' /\ [LC!Next]_LC!vars
  BY <1>5, ServerAnswerInv
<1>6. ASSUME NEW j \in Jobs, Deliver(j)
      PROVE  GrpcInv' /\ [LC!Next]_LC!vars
  BY <1>6, DeliverInv
<1>7. ASSUME NEW j \in Jobs,
             \/ RpcError(j) \/ RpcTimeout(j) \/ RecordFailure(j) \/ Begin(j)
             \/ TxStatement(j) \/ CommitTx(j) \/ Fail(j)
      PROVE  GrpcInv' /\ [LC!Next]_LC!vars
  <2>1. /\ CompletionStep(j) \/ CompletionFault(j)
        /\ UNCHANGED <<handler, crashes>> /\ (UNCHANGED <<rpc, answer>> \/ HangUp(j))
    BY <1>7 DEF RpcError, RpcTimeout, RecordFailure, Begin, TxStatement, CommitTx, Fail,
                CompletionStep, grpc
  <2> QED BY <2>1, GoroutineInv
<1>8. CASE Crash
  BY <1>8, CrashInv
<1> QED BY <1>1, <1>2, <1>3, <1>4, <1>5, <1>6, <1>7, <1>8 DEF Next, ApiStep, Idle

----------------------------------------------------------------------------

\* The inductive invariant of the grpc mode.
THEOREM GrpcInvariant == Spec => []GrpcInv
<1>1. Init => GrpcInv
  BY GrpcInitInv
<1>2. GrpcInv /\ [Next]_vars => GrpcInv'
  BY GrpcNextInv
<1> QED BY <1>1, <1>2, PTL DEF Spec

\* Type correctness.
THEOREM GrpcTypeCorrect == Spec => []TypeOK
<1>1. GrpcInv => TypeOK
  BY DEF GrpcInv, CompletionInv, GrpcTypeOK, TypeOK
<1> QED BY <1>1, GrpcInvariant, PTL

\* However late the rate server answers, a goroutine works on its own update,
\* which is unfinished.
THEOREM GrpcOwnUpdate == Spec => []OwnUpdate
<1>1. GrpcInv => OwnUpdate
  BY DEF GrpcInv
<1> QED BY <1>1, GrpcInvariant, PTL

\* The grpc mode implements the lifecycle, timeouts that race an answer and
\* crashes included.
THEOREM GrpcImplementsLifecycle == Spec => ImplementsLifecycle
<1>1. Init => LC!Init
  BY GrpcInitInv
<1>2. GrpcInv /\ [Next]_vars => [LC!Next]_LC!vars
  BY GrpcNextInv
<1> QED BY <1>1, <1>2, GrpcInvariant, PTL DEF Spec, ImplementsLifecycle, LC!Spec

\* What clients of the grpc mode read is coherent, as in the db mode, and final
\* once the update is finished.
THEOREM GrpcReads ==
  Spec => /\ []ReadCoherent /\ []LastQuoteInHistory /\ []OneHistoryRowPerJob /\ []DoneThenLastQuote
          /\ FinishedReadIsFinal
BY GrpcImplementsLifecycle, LifecycleReads, LifecycleFinal, PTL
============================================================================
