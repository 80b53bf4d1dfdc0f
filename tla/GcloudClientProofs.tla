------------------------- MODULE GcloudClientProofs -------------------------
(***************************************************************************)
(* GcloudClient for every retry budget and every Retry-After: the ranges   *)
(* of the variables, at-most-once writes, the bound on a call's effort,    *)
(* cancellation, the refinement of RemoteCall, and the number of steps in  *)
(* which a call comes to its end.                                          *)
(*                                                                         *)
(* Each property is strengthened to say what holds at every point of the   *)
(* loop: Effort counts the attempts against the budget, Delivery says that *)
(* a write which goes round the loop has not been applied.                 *)
(***************************************************************************)
EXTENDS GcloudClient, TLAPS

-----------------------------------------------------------------------------
(* The operators of the loop                                               *)

\* The backoff stays within a minute at every attempt number.
LEMMA RetryDelayRange ==
  ASSUME NEW a \in Nat
  PROVE  RetryDelaySeconds(a) \in 0..60
<1>1. CASE a >= 6
  BY <1>1 DEF RetryDelaySeconds
<1>2. CASE a < 6
  <2>1. a \in {0, 1, 2, 3, 4, 5}
    BY <1>2
  <2>2. 2^0 = 1 /\ 2^1 = 2 /\ 2^2 = 4 /\ 2^3 = 8 /\ 2^4 = 16 /\ 2^5 = 32
    OBVIOUS
  <2>3. {1, 2, 4, 8, 16, 32} \subseteq 0..60
    OBVIOUS
  <2>4. 2^a \in {1, 2, 4, 8, 16, 32}
    BY <2>1, <2>2, Zenon
  <2> QED
    BY <1>2, <2>3, <2>4 DEF RetryDelaySeconds
<1> QED
  BY <1>1, <1>2

\* So does every delay the loop may choose, whatever the server advises.
LEMMA DelaysRange ==
  ASSUME NEW o, NEW a, NEW n \in Nat
  PROVE  Delays(o, a, n) \subseteq 0..60
<1>1. RetryDelaySeconds(n) \in 0..60
  BY RetryDelayRange
<1>2. ASSUME NEW advice \in RetryAfter \cup {NoAdvice}
      PROVE  RateLimitRetryDelaySeconds(advice, n) \in 0..60
  <2>1. CASE advice = NoAdvice
    BY <1>1, <2>1 DEF RateLimitRetryDelaySeconds
  <2>2. CASE advice # NoAdvice
    <3>1. advice \in Int
      BY <2>2, RetryAfterAssumption
    <3> QED
      BY <2>2, <3>1 DEF RateLimitRetryDelaySeconds
  <2> QED
    BY <2>1, <2>2
<1> QED
  BY <1>1, <1>2 DEF Delays

\* What the answers say of the request: those a write goes round the loop for
\* leave it undone, and "ok" means it was carried out.
LEMMA EffectsOfAnswers ==
  ASSUME NEW a, NEW n \in Effects(a)
  PROVE  /\ n \in {0, 1}
         /\ a \in {"unauthorized", "rate_limited", "pre_send"} => n = 0
         /\ a = "ok" => n = 1
<1>1. CASE a = "ok"
  BY <1>1 DEF Effects
<1>2. CASE a \in {"unauthorized", "rate_limited", "pre_send", "bad_certificate"}
  BY <1>2 DEF Effects
<1>3. CASE a # "ok" /\ a \notin {"unauthorized", "rate_limited", "pre_send", "bad_certificate"}
  BY <1>3 DEF Effects
<1> QED
  BY <1>1, <1>2, <1>3

LEMMA AnswersOfAll ==
  ASSUME NEW o
  PROVE  Answers(o) \subseteq Answers("GrpcUnary")
BY DEF Answers

\* A write goes round the loop for a 429 and for errors before the send only.
LEMMA RetryableWrite ==
  ASSUME NEW o \in Writes
  PROVE  Retryable(o) = {"pre_send", "rate_limited"}
BY DEF Writes, Retryable, RetryableTransport, RetryableStatus

LEMMA UpNat ==
  ASSUME NEW n \in Nat, retries \in Nat
  PROVE  /\ Up(n) \in Nat
         /\ Up(n) \in {n, n + 1}
         /\ n <= retries + 2 => Up(n) = n + 1
BY DEF Up

-----------------------------------------------------------------------------
(* Type correctness                                                        *)

\* The variables keep their ranges; in particular every sleep is within 0..60.
THEOREM TypeCorrect == Spec => []TypeOK
<1>1. Init => TypeOK
  <2>1. 0 \in 0..60 /\ 0 \in Nat
    OBVIOUS
  <2> QED
    BY <2>1, Zenon DEF Init, TypeOK
<1>2. TypeOK /\ [Next]_vars => TypeOK'
  <2> SUFFICES ASSUME TypeOK, [Next]_vars
               PROVE  TypeOK'
    OBVIOUS
  <2> USE DEF TypeOK, loop, history
  <2>0. retries \in Nat
    BY RetryBudgetsAssumption
  <2>1. CASE Call
    BY <2>1 DEF Call
  <2>2. CASE Interrupt
    BY <2>2 DEF Interrupt
  <2>3. CASE BuildAuthHeaders
    BY <2>3 DEF BuildAuthHeaders, Return
  <2>4. CASE Send
    <3>1. Up(sends) \in Nat /\ Up(lateSends) \in Nat
      BY <2>0, UpNat
    <3> QED
      BY <2>4, <3>1 DEF Send
  <2>5. CASE Respond
    <3>1. Up(applied) \in Nat /\ Up(transients) \in Nat
      BY <2>0, UpNat
    <3>2. PICK a \in Answers(op) : answer' = a
      BY <2>5 DEF Respond
    <3>3. answer' \in Answers("GrpcUnary")
      BY <3>2, AnswersOfAll
    <3> QED
      BY <2>5, <3>1, <3>3 DEF Respond
  <2>6. CASE HandleUnauthorized
    <3>1. Up(attempt) \in Nat
      BY <2>0, UpNat
    <3> QED
      BY <2>6, <3>1 DEF HandleUnauthorized, TransportErrors
  <2>7. CASE HandleTransient
    <3>1. delay' \in 0..60
      BY <2>7, DelaysRange DEF HandleTransient
    <3> QED
      BY <2>7, <3>1 DEF HandleTransient, ConnectionAfter
  <2>8. CASE HandleFailure
    BY <2>8 DEF HandleFailure, Return, ConnectionAfter, Remark
  <2>9. CASE HandleSuccess
    BY <2>9 DEF HandleSuccess, Return, TransportErrors
  <2>10. CASE SleepInterrupted
    BY <2>10 DEF SleepInterrupted, Return
  <2>11. CASE SleepElapses
    <3>1. Up(attempt) \in Nat
      BY <2>0, UpNat
    <3> QED
      BY <2>11, <3>1 DEF SleepElapses
  <2>12. CASE UNCHANGED vars
    BY <2>12 DEF vars
  <2> QED
    BY <2>1, <2>2, <2>3, <2>4, <2>5, <2>6, <2>7, <2>8, <2>9, <2>10, <2>11, <2>12
       DEF Next, Handle, Sleep
<1> QED
  BY <1>1, <1>2, PTL DEF Spec

-----------------------------------------------------------------------------
(* The effort of a call                                                    *)

Extra == IF refreshed THEN 1 ELSE 0

\* Every attempt so far is a failure paid from the budget or the one 401, every
\* sleep follows one of the former.
Effort ==
  /\ sends <= retries + 1 + Extra
  /\ waited <= 60 * retries
  /\ pc # "idle" =>
       /\ Extra <= attempt
       /\ attempt <= retries + Extra
       /\ waited <= 60 * (attempt - Extra)
  /\ sends <= transients + 1 + Extra
  /\ pc \in {"top", "send", "wait"} => transients + Extra = attempt
  /\ pc = "handle" => transients + Extra = attempt + (IF answer \in Retryable(op) THEN 1 ELSE 0)
  /\ pc = "sleep" => transients + Extra = attempt + 1
  /\ pc \in {"top", "send"} => sends = attempt
  /\ pc \in {"wait", "handle", "sleep"} => sends = attempt + 1
  /\ pc = "sleep" => attempt < retries

LEMMA EffortPreserved == TypeOK /\ Effort /\ [Next]_vars => Effort'
<1> SUFFICES ASSUME TypeOK, Effort, [Next]_vars
             PROVE  Effort'
  OBVIOUS
<1> USE DEF Effort, Extra, loop, history
<1>0. /\ retries \in Nat /\ attempt \in Nat /\ sends \in Nat /\ waited \in Nat /\ transients \in Nat
      /\ refreshed \in BOOLEAN /\ delay \in 0..60
  BY RetryBudgetsAssumption DEF TypeOK
<1>1. CASE Call
  BY <1>0, <1>1 DEF Call
<1>2. CASE Interrupt
  BY <1>2 DEF Interrupt
<1>3. CASE BuildAuthHeaders
  BY <1>0, <1>3 DEF BuildAuthHeaders, Return
<1>4. CASE Send
  <2>1. Up(sends) = sends + 1
    BY <1>0, <1>4, UpNat DEF Send
  <2> QED
    BY <1>0, <1>4, <2>1 DEF Send
<1>5. CASE Respond
  <2>1. Up(transients) = transients + 1
    BY <1>0, <1>5, UpNat DEF Respond
  <2>2. transients' = IF answer' \in Retryable(op) THEN transients + 1 ELSE transients
    BY <1>5, <2>1 DEF Respond
  <2>3. op' = op /\ Retryable(op)' = Retryable(op)
    BY <1>5 DEF Respond, Retryable, RetryableTransport, RetryableStatus
  <2> QED
    BY <1>0, <1>5, <2>2, <2>3 DEF Respond
<1>6. CASE HandleUnauthorized
  <2>1. Up(attempt) = attempt + 1
    BY <1>0, <1>6, UpNat DEF HandleUnauthorized
  <2>2. "unauthorized" \notin Retryable(op)
    BY DEF TypeOK, Ops, Reads, Writes, Retryable, RetryableTransport, RetryableStatus
  <2> QED
    BY <1>0, <1>6, <2>1, <2>2 DEF HandleUnauthorized
<1>7. CASE HandleTransient
  BY <1>0, <1>7 DEF HandleTransient
<1>8. CASE HandleFailure
  BY <1>0, <1>8 DEF HandleFailure, Return
<1>9. CASE HandleSuccess
  BY <1>0, <1>9 DEF HandleSuccess, Return
<1>10. CASE SleepInterrupted
  BY <1>0, <1>10 DEF SleepInterrupted, Return
<1>11. CASE SleepElapses
  <2>1. Up(attempt) = attempt + 1
    BY <1>0, <1>11, UpNat DEF SleepElapses
  <2> QED
    BY <1>0, <1>11, <2>1 DEF SleepElapses
<1>12. CASE UNCHANGED vars
  BY <1>12 DEF vars
<1> QED
  BY <1>1, <1>2, <1>3, <1>4, <1>5, <1>6, <1>7, <1>8, <1>9, <1>10, <1>11, <1>12
     DEF Next, Handle, Sleep

\* A call makes at most retries + 1 attempts, one more after a 401, and is held
\* up for at most a minute per unit of its budget.
THEOREM EffortIsBounded == Spec => []BoundedEffort
<1>1. Init => Effort
  BY RetryBudgetsAssumption DEF Init, Effort, Extra
<1>2. Effort => BoundedEffort
  BY DEF Effort, Extra, BoundedEffort
<1> QED
  BY <1>1, <1>2, TypeCorrect, EffortPreserved, PTL DEF Spec

-----------------------------------------------------------------------------
(* What the service has carried out                                        *)

\* The call is pending exactly while its loop runs.  A write that is going round
\* the loop has not been carried out; while its answer is being handled it may
\* have been, but not if the answer lets the loop go on.
Delivery ==
  /\ pc = "idle" <=> result # "pending"
  /\ pc = "handle" /\ answer = "ok" => applied > 0
  /\ op \in Writes =>
       /\ applied <= 1
       /\ pc \in {"top", "send", "wait", "sleep"} => applied = 0
       /\ pc = "handle" /\ answer \in {"unauthorized", "rate_limited", "pre_send"}
            => applied = 0
  /\ result = "ok" => applied > 0

LEMMA DeliveryPreserved == TypeOK /\ Delivery /\ [Next]_vars => Delivery'
<1> SUFFICES ASSUME TypeOK, Delivery, [Next]_vars
             PROVE  Delivery'
  OBVIOUS
<1> USE DEF Delivery, loop, history
<1>0. retries \in Nat /\ applied \in Nat /\ op \in Ops
  BY RetryBudgetsAssumption DEF TypeOK
<1>1. CASE Call
  BY <1>1 DEF Call
<1>2. CASE Interrupt
  BY <1>2 DEF Interrupt
<1>3. CASE BuildAuthHeaders
  BY <1>3 DEF BuildAuthHeaders, Return
<1>4. CASE Send
  BY <1>4 DEF Send
<1>5. CASE Respond
  <2>1. PICK a \in Answers(op), n \in 0..1 :
          /\ n \in Effects(a)
          /\ answer' = a
          /\ applied' = IF n = 1 THEN Up(applied) ELSE applied
    BY <1>5 DEF Respond
  <2>2. /\ n \in {0, 1}
        /\ a \in {"unauthorized", "rate_limited", "pre_send"} => n = 0
        /\ a = "ok" => n = 1
    BY <2>1, EffectsOfAnswers
  <2>3. /\ Up(applied) \in Nat /\ Up(applied) \in {applied, applied + 1}
        /\ applied = 0 => Up(applied) = 1
    BY <1>0, UpNat
  <2>4. Up(applied) > 0
    BY <1>0 DEF Up
  <2>5. pc = "wait" /\ pc' = "handle" /\ UNCHANGED <<op, result>>
    BY <1>5 DEF Respond
  <2> QED
    BY <1>0, <2>1, <2>2, <2>3, <2>4, <2>5
<1>6. CASE HandleUnauthorized
  BY <1>6 DEF HandleUnauthorized
<1>7. CASE HandleTransient
  <2>1. op \in Writes => answer \in {"pre_send", "rate_limited"}
    BY <1>7, RetryableWrite DEF HandleTransient
  <2> QED
    BY <1>7, <2>1 DEF HandleTransient
<1>8. CASE HandleFailure
  BY <1>8 DEF HandleFailure, Return
<1>9. CASE HandleSuccess
  BY <1>9 DEF HandleSuccess, Return
<1>10. CASE SleepInterrupted
  BY <1>10 DEF SleepInterrupted, Return
<1>11. CASE SleepElapses
  BY <1>11 DEF SleepElapses
<1>12. CASE UNCHANGED vars
  BY <1>12 DEF vars
<1> QED
  BY <1>1, <1>2, <1>3, <1>4, <1>5, <1>6, <1>7, <1>8, <1>9, <1>10, <1>11, <1>12
     DEF Next, Handle, Sleep

LEMMA DeliveryInvariant == Spec => []Delivery
<1>1. Init => Delivery
  BY DEF Init, Delivery
<1> QED
  BY <1>1, TypeCorrect, DeliveryPreserved, PTL DEF Spec

\* A batch is stored at most once, and was stored if the write succeeded.
THEOREM WritesAreAtMostOnce == Spec => []AtMostOnceWrite
<1>1. TypeOK /\ Delivery => AtMostOnceWrite
  BY DEF TypeOK, Delivery, AtMostOnceWrite
<1> QED
  BY <1>1, TypeCorrect, DeliveryInvariant, PTL

\* A write that fails in transport without the remark was not stored.
THEOREM UnwarnedFailuresAreDefinite == Spec => UnwarnedFailureIsDefinite
<1> DEFINE Step == HandleFailure /\ op \in Writes /\ answer \in TransportErrors /\ ~warned'
                     => applied = 0
<1>1. TypeOK /\ Delivery /\ [Next]_vars => [Step]_vars
  <2> SUFFICES ASSUME Delivery, HandleFailure, op \in Writes, answer \in TransportErrors,
                      ~warned'
               PROVE  applied = 0
    OBVIOUS
  <2>1. answer = "pre_send"
    BY DEF HandleFailure, Remark
  <2>2. pc = "handle"
    BY DEF HandleFailure
  <2> QED
    BY <2>1, <2>2 DEF Delivery
<1> QED
  BY <1>1, TypeCorrect, DeliveryInvariant, PTL DEF Spec, UnwarnedFailureIsDefinite

-----------------------------------------------------------------------------
(* Cancellation and the pooled socket                                      *)

Late ==
  /\ lateSends <= 1
  /\ ~interrupted => lateSends = 0
  /\ pc = "send" => lateSends = 0

\* After a cancellation at most one attempt is still sent.
THEOREM CancellationStopsRetries == Spec => []CancelStopsRetries
<1>1. Init => Late
  BY DEF Init, Late
<1>2. TypeOK /\ Late /\ [Next]_vars => Late'
  <2> SUFFICES ASSUME TypeOK, Late, [Next]_vars
               PROVE  Late'
    OBVIOUS
  <2> USE DEF Late, loop, history
  <2>1. CASE Call
    BY <2>1 DEF Call
  <2>2. CASE Interrupt
    BY <2>2 DEF Interrupt
  <2>3. CASE BuildAuthHeaders
    BY <2>3 DEF BuildAuthHeaders, Return
  <2>4. CASE Send
    <3>1. retries \in Nat
      BY RetryBudgetsAssumption DEF TypeOK
    <3>2. Up(0) = 1
      BY <3>1 DEF Up
    <3> QED
      BY <2>4, <3>2 DEF Send
  <2>5. CASE Respond
    BY <2>5 DEF Respond
  <2>6. CASE Handle
    BY <2>6 DEF Handle, HandleUnauthorized, HandleTransient, HandleFailure,
                HandleSuccess, Return
  <2>7. CASE Sleep
    BY <2>7 DEF Sleep, SleepInterrupted, SleepElapses, Return
  <2>8. CASE UNCHANGED vars
    BY <2>8 DEF vars
  <2> QED
    BY <2>1, <2>2, <2>3, <2>4, <2>5, <2>6, <2>7, <2>8 DEF Next
<1>3. Late => CancelStopsRetries
  BY DEF Late, CancelStopsRetries
<1> QED
  BY <1>1, <1>2, <1>3, TypeCorrect, PTL DEF Spec

-----------------------------------------------------------------------------
(* Refinement                                                              *)

\* Every step of the loop is a step of RemoteCall or changes nothing it sees.
THEOREM ClientKeepsRemoteCall == Spec => KeepsRemoteCall
<1>1. Init => RC!RCInit
  BY DEF Init, RC!RCInit, Ops
<1>2. TypeOK /\ TypeOK' /\ Delivery /\ [Next]_vars => [RC!RCNext]_(RC!rcvars)
  <2> SUFFICES ASSUME TypeOK, TypeOK', Delivery, [Next]_vars
               PROVE  RC!RCNext \/ UNCHANGED RC!rcvars
    OBVIOUS
  <2> USE DEF RC!rcvars, RC!RCNext, loop, history
  <2>1. CASE Call
    BY <2>1 DEF Call, RC!Begin, Delivery, Ops
  <2>2. CASE Interrupt \/ Send \/ HandleUnauthorized \/ HandleTransient \/ SleepElapses
    BY <2>2 DEF Interrupt, Send, HandleUnauthorized, HandleTransient, SleepElapses
  <2>3. CASE BuildAuthHeaders \/ HandleFailure \/ SleepInterrupted
    BY <2>3 DEF BuildAuthHeaders, HandleFailure, SleepInterrupted, Return, RC!Fail,
                RC!Failures, Delivery
  <2>4. CASE Respond
    <3>1. \/ applied' = applied
          \/ applied' = Up(applied)
      BY <2>4 DEF Respond
    <3>2. Up(applied) \in {applied, applied + 1}
      BY UpNat, RetryBudgetsAssumption DEF TypeOK
    <3>3. pc = "wait" /\ UNCHANGED <<op, result>>
      BY <2>4 DEF Respond
    <3>4. result = "pending" /\ (op \in Writes => applied = 0)
      BY <3>3 DEF Delivery
    <3> QED
      BY <3>1, <3>2, <3>3, <3>4 DEF RC!Apply
  <2>5. CASE HandleSuccess
    BY <2>5 DEF HandleSuccess, Return, RC!Succeed, Delivery
  <2>6. CASE UNCHANGED vars
    BY <2>6 DEF vars
  <2> QED
    BY <2>1, <2>2, <2>3, <2>4, <2>5, <2>6 DEF Next, Handle, Sleep
<1> QED
  BY <1>1, <1>2, TypeCorrect, DeliveryInvariant, PTL DEF Spec, KeepsRemoteCall, RC!RCSpec

-----------------------------------------------------------------------------
(* A call comes to its end                                                 *)

\* What the call under way has still to do: five steps for each attempt its budget and the one 401
\* allow, and those of the attempt that is being made.
Left ==
  LET budget == IF attempt < retries THEN retries - attempt ELSE 0
      again  == IF refreshed THEN 0 ELSE 1
      steps  == CASE pc = "top" -> 5 [] pc = "send" -> 4 [] pc = "wait" -> 3
                  [] pc = "handle" -> 2 [] pc = "sleep" -> 1 [] OTHER -> 0
  IN  IF pc = "idle" THEN 0 ELSE 5 * (budget + again) + steps

\* The thread goes on in its loop.
LoopStep == BuildAuthHeaders \/ Send \/ Respond \/ Handle \/ Sleep

\* Every step of the loop leaves less to do.
LEMMA LoopLeavesLess ==
  ASSUME TypeOK, Effort, LoopStep
  PROVE  Left' < Left
<1> USE DEF loop, history
<1>0. /\ retries \in Nat /\ attempt \in Nat /\ refreshed \in BOOLEAN /\ retries' = retries
  BY RetryBudgetsAssumption
     DEF TypeOK, LoopStep, BuildAuthHeaders, Send, Respond, Handle, Sleep, HandleUnauthorized, HandleTransient,
         HandleFailure, HandleSuccess, SleepInterrupted, SleepElapses
<1>1. ASSUME pc # "idle", pc \in {"top", "send", "wait", "handle", "sleep"}, pc' = "idle" PROVE Left' < Left
  BY <1>0, <1>1 DEF Left
<1>2. CASE BuildAuthHeaders
  BY <1>0, <1>1, <1>2 DEF BuildAuthHeaders, Return, Left
<1>3. CASE Send
  BY <1>0, <1>3 DEF Send, Left
<1>4. CASE Respond
  BY <1>0, <1>4 DEF Respond, Left
<1>5. CASE HandleUnauthorized
  <2>1. Up(attempt) \in {attempt, attempt + 1}
    BY <1>0, UpNat
  <2> QED
    BY <1>0, <1>5, <2>1 DEF HandleUnauthorized, Left
<1>6. CASE HandleTransient
  BY <1>0, <1>6 DEF HandleTransient, Left
<1>7. CASE HandleFailure \/ HandleSuccess
  BY <1>1, <1>7 DEF HandleFailure, HandleSuccess, Return
<1>8. CASE SleepInterrupted
  BY <1>1, <1>8 DEF SleepInterrupted, Return
<1>9. CASE SleepElapses
  <2>1. attempt < retries /\ pc = "sleep"
    BY <1>9 DEF Effort, SleepElapses
  <2>2. Up(attempt) = attempt + 1
    BY <1>0, <2>1, UpNat
  <2> QED
    BY <1>0, <1>9, <2>1, <2>2 DEF SleepElapses, Left
<1> QED
  BY <1>2, <1>3, <1>4, <1>5, <1>6, <1>7, <1>8, <1>9 DEF LoopStep, Handle, Sleep

\* A call is at its end after at most 5 * retries + 10 steps of its loop, whatever the service answers:
\* neither failures nor rejected tokens keep it going, and a cancellation adds nothing
\* (gcloud_client.cpp:239).
THEOREM CallsComeToTheirEnd ==
  Spec => /\ [](Left \in 0..5 * retries + 10)
          /\ [][/\ LoopStep => Left' < Left
                /\ Interrupt => Left' = Left]_vars
<1>1. TypeOK => Left \in 0..5 * retries + 10
  <2> SUFFICES ASSUME TypeOK PROVE Left \in 0..5 * retries + 10
    OBVIOUS
  <2>1. retries \in Nat /\ attempt \in Nat /\ refreshed \in BOOLEAN
    BY RetryBudgetsAssumption DEF TypeOK
  <2> QED
    BY <2>1 DEF TypeOK, Left
<1>2. TypeOK /\ Effort => [/\ LoopStep => Left' < Left
                           /\ Interrupt => Left' = Left]_vars
  <2>1. ASSUME Interrupt PROVE Left' = Left
    BY <2>1 DEF Interrupt, loop, history, Left
  <2> QED
    BY <2>1, LoopLeavesLess
<1>3. Init => Effort
  BY RetryBudgetsAssumption DEF Init, Effort, Extra
<1> QED
  BY <1>1, <1>2, <1>3, TypeCorrect, EffortPreserved, PTL DEF Spec
=============================================================================
