----------------------------- MODULE HttpServer -----------------------------
(***************************************************************************)
(* The HTTP server in front of the calls of QuoteApi: the generated        *)
(* binding of parameters and the validation of a POST decide which         *)
(* requests reach the service, and with which key.  The GET handlers only  *)
(* read: their answers are operators of QuoteTables.  The access log has   *)
(* no effect on clients and is left out.                                   *)
(***************************************************************************)
EXTENDS QuoteApi, Sequences

NoValue == "empty"
Headers == {<<>>, <<NoValue>>} \cup {<<k>> : k \in Keys} \cup {<<k, k>> : k \in Keys}
Bodies == {"pair", "no JSON", "no pair", "bad pair"}

\* Mutant of Bound: the first value of the header is taken, whatever it is.
BoundAny(header) == header # <<>>

\* The wrapper wants the header once and not empty, the handler a valid pair.
Bound(header) == Len(header) = 1 /\ header[1] # NoValue
Valid(body) == body = "pair"

Receive(r, header, body) ==
  IF Bound(header) /\ Valid(body) THEN CallService(r, header[1]) ELSE Reject(r)

\* The handler in its calls to the service, up to the answer.  A panic in one of
\* them is answered 500 by the recovery middleware, as an error is.
Handle(r) ==
  \/ Reserve(r) \/ Conflict(r) \/ ReserveReplyLost(r) \/ ReserveError(r)
  \/ CreateQueued(r) \/ CreateQueuedError(r) \/ Accepted(r)

HttpNext ==
  \/ \E r \in Requests :
       \/ \E header \in Headers, body \in Bodies : Receive(r, header, body)
       \/ Handle(r)
  \/ \E k \in Keys : Expire(k)
  \/ Crash \/ Quiet

HttpSpec == Init /\ [][HttpNext]_vars
============================================================================
