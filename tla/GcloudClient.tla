---------------------------- MODULE GcloudClient ----------------------------
(***************************************************************************)
(* The attempt loops of GcloudClient: Request (reads over HTTP),           *)
(* PostWithoutReplay (writes over HTTP) and GrpcUnary (reads over HTTP/2). *)
(* One client serves one call at a time; calls follow each other without   *)
(* end and share the pooled keep-alive connection.  The service and the    *)
(* network are unconstrained: every attempt may end in any of the answers. *)
(*                                                                         *)
(* Where an access token comes from is the subject of TokenCache; here     *)
(* GetGcloudAccessToken either yields a token or fails.                    *)
(***************************************************************************)
EXTENDS Integers

CONSTANTS RetryBudgets,  \* the values of the client's `retries` field
          RetryAfter,    \* the numbers a Retry-After header may carry
          NoAdvice       \* no such header, or one that is not a number

ASSUME RetryBudgetsAssumption == RetryBudgets \subseteq Nat
ASSUME RetryAfterAssumption == RetryAfter \subseteq Int
ASSUME NoAdviceAssumption == NoAdvice \notin Int

VARIABLES
  op,           \* the operation of the call under way, or of the last one
  pc,           \* where its attempt loop stands
  attempt,      \* the loop's counter
  retries,      \* the retry budget of the client
  refreshed,    \* token_refreshed
  delay,        \* seconds the loop is sleeping for
  conn,         \* the pooled connection
  answer,       \* how the attempt in flight ended
  interrupted,  \* ClientContext::interrupted
  result,       \* how the last call ended, "pending" while it runs
  warned,       \* the error says the batch might have been accepted
  \* History of the call under way.
  sends,        \* attempts put on the wire
  lateSends,    \* those put on the wire after the query was cancelled
  applied,      \* attempts the service carried out
  transients,   \* attempts that ended in a failure this operation retries
  waited        \* seconds slept

loop == <<op, retries>>
history == <<sends, lateSends, applied, transients, waited>>
vars == <<op, pc, attempt, retries, refreshed, delay, conn, answer, interrupted,
          result, warned, sends, lateSends, applied, transients, waited>>

-----------------------------------------------------------------------------
(* Operations and answers                                                  *)

Reads  == {"Request", "GrpcUnary"}
Writes == {"PostWithoutReplay"}
Ops    == Reads \cup Writes

\* httplib and curl errors by what they say of the request: it was not sent
\* (IsPreSendTransportError), it may have been, the server's certificate was
\* refused (IsRetryableTransportError is false).  CurlProgress aborts a gRPC
\* transfer of a cancelled query.
TransportErrors == {"pre_send", "ambiguous", "bad_certificate"}
HttpAnswers     == {"ok", "unauthorized", "rate_limited", "server_error", "rejected"}
\* HTTP 200 with grpc-status 8/13/14, with any other nonzero status, and
\* without a trailer or with a frame that UnframeGrpcMessage refuses.
GrpcAnswers     == {"grpc_retryable", "grpc_error", "grpc_malformed"}

Answers(o) == TransportErrors \cup HttpAnswers
                \cup (IF o = "GrpcUnary" THEN GrpcAnswers \cup {"aborted"} ELSE {})

\* How often the service may have carried out an attempt with this answer. A
\* 429 is an explicit rejection; a rejected timeSeries batch, a 5xx and a lost
\* response leave it open.
Effects(a) ==
  CASE a = "ok" -> {1}
    [] a \in {"unauthorized", "rate_limited", "pre_send", "bad_certificate"} -> {0}
    [] OTHER -> {0, 1}

\* Fault: writes ride out the transport errors that reads do.
RetryableTransport_SharedPolicy(o) == {"pre_send", "ambiguous"}

\* The transport errors an operation rides out.
RetryableTransport(o) ==
  IF o = "PostWithoutReplay" THEN {"pre_send"} ELSE {"pre_send", "ambiguous"}

\* Fault: writes ride out 5xx answers.
RetryableStatus_SharedPolicy(o) ==
  {"rate_limited", "server_error"}
    \cup (IF o = "GrpcUnary" THEN {"grpc_retryable"} ELSE {})

\* The answers of the service an operation rides out.
RetryableStatus(o) ==
  CASE o = "Request"           -> {"rate_limited", "server_error"}
    [] o = "PostWithoutReplay" -> {"rate_limited"}
    [] o = "GrpcUnary"         -> {"rate_limited", "server_error", "grpc_retryable"}

Retryable(o) == RetryableTransport(o) \cup RetryableStatus(o)

\* Fault: the backoff is not capped.
RetryDelaySeconds_Uncapped(a) == 2^a

\* The shift is capped before it can leave 64 bits.
RetryDelaySeconds(a) == IF a >= 6 THEN 60 ELSE 2^a

RateLimitRetryDelaySeconds(advice, a) ==
  IF advice = NoAdvice THEN RetryDelaySeconds(a)
  ELSE IF advice < 0   THEN 1
  ELSE IF advice > 59  THEN 60
  ELSE advice + 1

\* A 429 over HTTP follows the server's advice, everything else backs off.
Delays(o, a, n) ==
  IF a = "rate_limited" /\ o # "GrpcUnary"
  THEN {RateLimitRetryDelaySeconds(advice, n) : advice \in RetryAfter \cup {NoAdvice}}
  ELSE {RetryDelaySeconds(n)}

\* Counting stops above every bound stated below, so that a loop that would
\* not end has finitely many states; the loops of this module never get there.
Up(n) == IF n > retries + 2 THEN n ELSE n + 1

-----------------------------------------------------------------------------
(* The attempt loop                                                        *)

Init ==
  /\ op \in Ops
  /\ retries \in RetryBudgets
  /\ pc = "idle" /\ attempt = 0 /\ refreshed = FALSE /\ delay = 0
  /\ conn = "none" /\ answer = "none" /\ interrupted = FALSE
  /\ result = "none" /\ warned = FALSE
  /\ sends = 0 /\ lateSends = 0 /\ applied = 0 /\ transients = 0 /\ waited = 0

\* The call ends with result r.
Return(r) ==
  /\ pc' = "idle"
  /\ result' = r
  /\ delay' = 0
  /\ answer' = "none"

\* A call begins, in the same query or in a later one.
Call ==
  /\ pc = "idle"
  /\ op' \in Ops
  /\ pc' = "top" /\ attempt' = 0 /\ refreshed' = FALSE
  /\ interrupted' \in {interrupted, FALSE}
  /\ result' = "pending" /\ warned' = FALSE
  /\ sends' = 0 /\ lateSends' = 0 /\ applied' = 0 /\ transients' = 0 /\ waited' = 0
  /\ UNCHANGED <<retries, delay, conn, answer>>

\* The query is cancelled.
Interrupt ==
  /\ pc # "idle"
  /\ ~interrupted
  /\ interrupted' = TRUE
  /\ UNCHANGED <<loop, pc, attempt, refreshed, delay, conn, answer, result, warned, history>>

\* Fault: the head of the loop does not look at the flag.
BuildAuthHeaders_NoPoll ==
  /\ pc = "top"
  /\ pc' = "send"
  /\ UNCHANGED <<loop, attempt, refreshed, delay, conn, answer, interrupted, result,
                 warned, history>>

\* The head of the loop: a cancelled query stops here, and no token means no
\* request.  The token is asked for before every attempt.
BuildAuthHeaders ==
  /\ pc = "top"
  /\ \/ /\ interrupted
        /\ Return("interrupted")
     \/ /\ ~interrupted
        /\ Return("io_error")
     \/ /\ ~interrupted
        /\ pc' = "send"
        /\ UNCHANGED <<delay, answer, result>>
  /\ UNCHANGED <<loop, attempt, refreshed, conn, interrupted, warned, history>>

\* GetConnection opens the pooled connection on first use; curl opens its own.
Send ==
  /\ pc = "send"
  /\ pc' = "wait"
  /\ conn' = IF op = "GrpcUnary" \/ conn # "none" THEN conn ELSE "open"
  /\ sends' = Up(sends)
  /\ lateSends' = IF interrupted THEN Up(lateSends) ELSE lateSends
  /\ UNCHANGED <<loop, attempt, refreshed, delay, answer, interrupted, result, warned,
                 applied, transients, waited>>

\* The attempt ends: an answer, a transport error or a timeout.  A transport
\* error may leave the pooled socket half-dead.
Respond ==
  /\ pc = "wait"
  /\ \E a \in Answers(op), n \in 0..1 :
       /\ a = "aborted" => interrupted
       /\ n \in Effects(a)
       /\ answer' = a
       /\ applied' = IF n = 1 THEN Up(applied) ELSE applied
       /\ transients' = IF a \in Retryable(op) THEN Up(transients) ELSE transients
       /\ conn' = IF a \in TransportErrors /\ op # "GrpcUnary" THEN "failed" ELSE conn
  /\ pc' = "handle"
  /\ UNCHANGED <<loop, attempt, refreshed, delay, interrupted, result, warned,
                 sends, lateSends, waited>>

\* connection.reset() on every transport error, retried or not.
ConnectionAfter(a) ==
  IF a \in TransportErrors /\ op # "GrpcUnary" THEN "none" ELSE conn

\* Fault: every 401 drops the token and starts over.
HandleUnauthorized_EveryTime ==
  /\ pc = "handle"
  /\ answer = "unauthorized"
  /\ refreshed' = TRUE
  /\ attempt' = Up(attempt)
  /\ pc' = "top"
  /\ answer' = "none"
  /\ UNCHANGED <<loop, delay, conn, interrupted, result, warned, history>>

\* A rejected token: drop it from the cache and ask for another, once.
HandleUnauthorized ==
  /\ pc = "handle"
  /\ answer = "unauthorized"
  /\ ~refreshed
  /\ refreshed' = TRUE
  /\ attempt' = Up(attempt)
  /\ pc' = "top"
  /\ answer' = "none"
  /\ UNCHANGED <<loop, delay, conn, interrupted, result, warned, history>>

\* Fault: the budget is off by one.
HandleTransient_OffByOne ==
  /\ pc = "handle"
  /\ answer \in Retryable(op)
  /\ attempt <= retries
  /\ conn' = ConnectionAfter(answer)
  /\ delay' \in Delays(op, answer, attempt)
  /\ pc' = "sleep"
  /\ answer' = "none"
  /\ UNCHANGED <<loop, attempt, refreshed, interrupted, result, warned, history>>

\* A failure the operation rides out, while the budget lasts.
HandleTransient ==
  /\ pc = "handle"
  /\ answer \in Retryable(op)
  /\ attempt < retries
  /\ conn' = ConnectionAfter(answer)
  /\ delay' \in Delays(op, answer, attempt)
  /\ pc' = "sleep"
  /\ answer' = "none"
  /\ UNCHANGED <<loop, attempt, refreshed, interrupted, result, warned, history>>

\* Fault: the remark is left out for the errors that reads ride out.
Remark_OnPermanentErrors(a) ==
  op \in Writes /\ a \in TransportErrors \ RetryableTransport("Request")

\* The remark that the batch might have been accepted, on the errors of a
\* write that may have happened after the send.
Remark(a) == op \in Writes /\ a \in TransportErrors \ {"pre_send"}

\* Every other failure is thrown.
HandleFailure ==
  /\ pc = "handle"
  /\ answer # "ok"
  /\ ~(answer = "unauthorized" /\ ~refreshed)
  /\ ~(answer \in Retryable(op) /\ attempt < retries)
  /\ conn' = ConnectionAfter(answer)
  /\ warned' = Remark(answer)
  /\ Return(IF answer = "aborted" THEN "interrupted" ELSE "io_error")
  /\ UNCHANGED <<loop, attempt, refreshed, interrupted, history>>

HandleSuccess ==
  /\ pc = "handle"
  /\ answer = "ok"
  /\ Return("ok")
  /\ UNCHANGED <<loop, attempt, refreshed, conn, interrupted, warned, history>>

\* SleepCheckingInterrupt sees the cancellation, or the delay elapses (the
\* flag may still be set after its last poll).
SleepInterrupted ==
  /\ pc = "sleep"
  /\ interrupted
  /\ Return("interrupted")
  /\ UNCHANGED <<loop, attempt, refreshed, conn, interrupted, warned, history>>

SleepElapses ==
  /\ pc = "sleep"
  /\ pc' = "top"
  /\ attempt' = Up(attempt)
  /\ waited' = waited + delay
  /\ delay' = 0
  /\ UNCHANGED <<loop, refreshed, conn, answer, interrupted, result, warned,
                 sends, lateSends, applied, transients>>

Handle == HandleUnauthorized \/ HandleTransient \/ HandleFailure \/ HandleSuccess
Sleep  == SleepInterrupted \/ SleepElapses

Next == Call \/ Interrupt \/ BuildAuthHeaders \/ Send \/ Respond \/ Handle \/ Sleep

\* The calling thread keeps running, and every attempt ends because the
\* connection and read timeouts bound it.
Fairness == WF_vars(BuildAuthHeaders \/ Send \/ Respond \/ Handle \/ Sleep)

Spec == Init /\ [][Next]_vars
FairSpec == Spec /\ Fairness

-----------------------------------------------------------------------------
(* Properties                                                              *)

\* The ranges of the variables.  No sleep is longer than a minute, whatever
\* the attempt number and whatever the server's Retry-After says; and a socket that
\* had a transport error is gone before the loop, or a later call, goes on.
TypeOK ==
  /\ op \in Ops
  /\ pc \in {"idle", "top", "send", "wait", "handle", "sleep"}
  /\ retries \in RetryBudgets
  /\ refreshed \in BOOLEAN /\ interrupted \in BOOLEAN /\ warned \in BOOLEAN
  /\ delay \in 0..60
  /\ conn \in {"none", "open", "failed"}
  /\ conn = "failed" => pc = "handle" /\ answer \in TransportErrors /\ op # "GrpcUnary"
  /\ answer \in Answers("GrpcUnary") \cup {"none"}
  /\ result \in {"none", "pending", "ok", "io_error", "interrupted"}
  /\ attempt \in Nat /\ sends \in Nat /\ lateSends \in Nat
  /\ applied \in Nat /\ transients \in Nat /\ waited \in Nat

\* PostWithoutReplay never replays a request that may already have been
\* applied: through every mixture of lost responses, 401, 429 and 5xx answers
\* the service stores a batch at most once, and a batch reported as written
\* was stored.
AtMostOnceWrite ==
  op \in Writes => /\ applied <= 1
                   /\ result = "ok" => applied = 1

\* A write that fails in transport without the remark that the batch might
\* have been accepted was not accepted, by this attempt or by an earlier one:
\* the caller may send it again.
UnwarnedFailureIsDefinite ==
  [][HandleFailure /\ op \in Writes /\ answer \in TransportErrors /\ ~warned'
       => applied = 0]_vars

\* The attempts of a call: the first one, one per unit of the retry budget and one
\* for the 401, in any mixture; each but the first answers a failure that the
\* operation may repeat, or the 401.  A call is held up for at most a minute per unit.
BoundedEffort ==
  LET extra == IF refreshed THEN 1 ELSE 0 IN
  /\ sends <= retries + 1 + extra
  /\ sends <= transients + 1 + extra
  /\ waited <= 60 * retries

\* After a query is cancelled its call sends nothing but the attempt whose
\* headers were already built; in particular it retries nothing.
CancelStopsRetries == lateSends <= 1

\* Every call ends: neither rejected tokens nor failures of the service can
\* keep the loop going, and a cancelled query is not stuck in it.
CallTerminates == (pc # "idle") ~> (pc = "idle")

\* Every call keeps the promise of RemoteCall.
RC == INSTANCE RemoteCall WITH kind <- op, verdict <- result
KeepsRemoteCall == RC!RCSpec
=============================================================================
