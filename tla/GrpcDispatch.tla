---------------------------- MODULE GrpcDispatch ----------------------------
(***************************************************************************)
(* The grpc worker mode: the handler of an API process answers 202 and     *)
(* starts a goroutine per update, which asks a rate server for the quote   *)
(* under the request timeout and then completes the update itself, without *)
(* a deadline.  The goroutines and the handlers share a connection pool: a *)
(* statement, or a whole transaction, needs a connection and waits for one *)
(* for as long as it takes.  The rate server may answer late or never.     *)
(***************************************************************************)
EXTENDS QuoteCompletion

CONSTANTS MaxConns,       \* PG_MAX_CONNS
          MaxCrashes      \* bound on crashes of the API process

\* The goroutine of an update is known by the id of the update.
ASSUME GrpcAssumption ==
  Procs = Jobs /\ MaxConns \in Nat \ {0} /\ MaxCrashes \in Nat

VARIABLES handler,    \* per update: "none", "respond" after the INSERT,
                      \* "dispatch" after the 202, "ended"
          rpc,        \* per update: "none", "called", "answered" (the answer is
                      \* under way)
          answer,     \* per update: the quote the rate server answers with
          crashes

grpc == <<handler, rpc, answer, crashes>>
vars == <<tables, clock, completion, dbErrors, grpc>>

TypeOK ==
  /\ CompletionTypeOK
  /\ handler \in [Jobs -> {"none", "respond", "dispatch", "ended"}]
  /\ rpc \in [Jobs -> {"none", "called", "answered"}]
  /\ answer \in [Jobs -> Times \cup {NoQuote}]
  /\ crashes \in 0..MaxCrashes

Init ==
  /\ CompletionInit
  /\ handler = [j \in Jobs |-> "none"]
  /\ rpc = [j \in Jobs |-> "none"]
  /\ answer = [j \in Jobs |-> NoQuote]
  /\ crashes = 0

----------------------------------------------------------------------------
(* The handler, and the pool it shares with the goroutines. *)

\* A transaction keeps its connection; a single statement gives it back.
FreeConn == Cardinality({j \in Jobs : pc[j] \in InTx}) < MaxConns

\* CreateQueued: the INSERT of the queued row.
Insert(j, p) ==
  /\ handler[j] = "none"
  /\ FreeConn
  /\ updates' = [updates EXCEPT ![j] = QueuedRow(p)]
  /\ handler' = [handler EXCEPT ![j] = "respond"]
  /\ UNCHANGED <<quotes, history, clock, completion, dbErrors, rpc, answer, crashes>>

\* CreateQueued fails, in the wait for a connection or with the row inserted:
\* the handler answers 500 and does not dispatch.
InsertError(j, p) ==
  /\ handler[j] = "none"
  /\ DbError
  /\ \/ UNCHANGED updates
     \/ FreeConn /\ updates' = [updates EXCEPT ![j] = QueuedRow(p)]
  /\ handler' = [handler EXCEPT ![j] = "ended"]
  /\ UNCHANGED <<quotes, history, clock, completion, rpc, answer, crashes>>

\* writeJSON(202), before the dispatch.
Accept(j) ==
  /\ handler[j] = "respond"
  /\ handler' = [handler EXCEPT ![j] = "dispatch"]
  /\ UNCHANGED <<tables, clock, completion, dbErrors, rpc, answer, crashes>>

\* The dispatcher starts the goroutine, which calls the rate server.
Dispatch(j) ==
  /\ handler[j] = "dispatch"
  /\ handler' = [handler EXCEPT ![j] = "ended"]
  /\ Goto(j, "idle", "fetch")
  /\ job' = [job EXCEPT ![j] = j]
  /\ rpc' = [rpc EXCEPT ![j] = "called"]
  /\ UNCHANGED <<tables, clock, quote, staged, dbErrors, answer, crashes>>

----------------------------------------------------------------------------
(* The call. *)

HangUp(j) ==
  /\ rpc' = [rpc EXCEPT ![j] = "none"]
  /\ answer' = [answer EXCEPT ![j] = NoQuote]

\* The rate server has a quote: its answer is under way.
ServerAnswer(j) ==
  /\ rpc[j] = "called"
  /\ rpc' = [rpc EXCEPT ![j] = "answered"]
  /\ answer' = [answer EXCEPT ![j] = clock]
  /\ UNCHANGED <<tables, clock, completion, dbErrors, handler, crashes>>

\* Fetch returns the answer.
Deliver(j) ==
  /\ rpc[j] = "answered"
  /\ Goto(j, "fetch", "begin")
  /\ quote' = [quote EXCEPT ![j] = answer[j]]
  /\ HangUp(j)
  /\ UNCHANGED <<tables, clock, job, staged, dbErrors, handler, crashes>>

\* The provider fails, no server is up, or the answer cannot be parsed.
RpcError(j) == FetchErr(j) /\ HangUp(j) /\ UNCHANGED <<handler, crashes>>

\* Mutant of RpcTimeout: the call has no deadline.
NoTimeout(j) ==
  /\ FALSE
  /\ UNCHANGED vars

\* Mutant of RpcTimeout: the failure is recorded and the call goes on.
TimeoutGoesOn(j) ==
  /\ rpc[j] # "none"
  /\ pc[j] = "fetch"
  /\ updates' = UpdateStatus(updates, j, "failed", "msg")
  /\ UNCHANGED <<quotes, history, clock, completion, dbErrors, grpc>>

\* The request timeout is over, maybe with the answer under way.
RpcTimeout(j) ==
  /\ rpc[j] # "none"
  /\ FetchErr(j)
  /\ HangUp(j)
  /\ UNCHANGED <<handler, crashes>>

----------------------------------------------------------------------------
(* CompleteQuoteUpdate on the pool. *)

RecordFailure(j) == FreeConn /\ MarkFailed(j) /\ UNCHANGED grpc

Begin(j) == FreeConn /\ BeginTx(j) /\ UNCHANGED grpc

\* The statements of a transaction find its connection in their context.
TxStatement(j) ==
  /\ AppendHistory(j) \/ Upsert(j) \/ MarkDone(j)
  /\ UNCHANGED grpc

CommitTx(j) == Commit(j) /\ UNCHANGED grpc

Fail(j) == CompletionFault(j) /\ UNCHANGED grpc

\* The API process dies, and its goroutines with it.
Crash ==
  /\ crashes < MaxCrashes
  /\ crashes' = crashes + 1
  /\ handler' = [j \in Jobs |-> IF handler[j] = "none" THEN "none" ELSE "ended"]
  /\ rpc' = [j \in Jobs |-> "none"]
  /\ answer' = [j \in Jobs |-> NoQuote]
  /\ pc' = [j \in Jobs |-> "idle"]
  /\ job' = [j \in Jobs |-> NoJob]
  /\ quote' = [j \in Jobs |-> NoQuote]
  /\ staged' = [j \in Jobs |-> {}]
  /\ UNCHANGED <<tables, clock, dbErrors>>

Provider == Tick /\ UNCHANGED grpc

\* Every update has been requested and every goroutine has ended.
Idle ==
  /\ \A j \in Jobs : handler[j] = "ended" /\ pc[j] = "idle"
  /\ UNCHANGED vars

\* What the API process does by itself for an update.
ApiStep(j) ==
  \/ Accept(j) \/ Dispatch(j) \/ Deliver(j) \/ RpcTimeout(j)
  \/ RecordFailure(j) \/ Begin(j) \/ TxStatement(j) \/ CommitTx(j)

Next ==
  \/ \E j \in Jobs : \/ \E p \in Pairs : Insert(j, p) \/ InsertError(j, p)
                     \/ ServerAnswer(j) \/ RpcError(j)
                     \/ ApiStep(j) \/ Fail(j)
  \/ Crash \/ Provider \/ Idle

Spec == Init /\ [][Next]_vars

\* The goroutines run, timeouts fire and statements return.  Nothing is assumed
\* of the rate server.
FairSpec == Spec /\ \A j \in Jobs : WF_vars(ApiStep(j))

----------------------------------------------------------------------------

\* Updates in queued that no handler and no goroutine will finish.
Lost == {j \in Jobs : /\ updates[j].status = "queued"
                      /\ handler[j] = "ended"
                      /\ pc[j] = "idle"}

\* A goroutine works on its own update and no other, and only for as long as the
\* update is unfinished: nothing else ends it, a call that timed out included.
OwnUpdate ==
  \A j \in Jobs : pc[j] # "idle" => job[j] = j /\ LC!Unfinished(j)

\* Whatever the rate server does, every accepted update is finished, or lost to
\* a crash or a database error: the timeout ends every call, and goroutines
\* that hold connections never wait for one.
EveryJobCompletesOrIsLost ==
  \A j \in Jobs : updates[j].status = "queued" ~>
    \/ updates[j].status \in Terminal
    \/ j \in Lost /\ dbErrors + crashes > 0
============================================================================
