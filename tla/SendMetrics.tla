---------------------------- MODULE SendMetrics -----------------------------
(***************************************************************************)
(* send_gcloud_metrics: every projection thread of a query maps its chunk  *)
(* of rows to points, then, holding the statement's send_mutex, writes     *)
(* them in passes: each pass takes the earliest pending point of every     *)
(* distinct series, as many as one request may carry.                      *)
(*                                                                         *)
(* A write is one call of GcloudClient, seen here as RemoteCall describes  *)
(* it: it reaches the service at most once and may fail before or after.   *)
(* timeSeries.create has no all-or-nothing switch, so the service may have *)
(* stored any part of a batch it did not confirm.                          *)
(***************************************************************************)
EXTENDS Integers, Sequences, FiniteSets

CONSTANTS
  Thread,    \* the threads that evaluate the projection
  Chunks,    \* the chunks of rows they may be given
  Null,      \* a NULL row
  Invalid,   \* a row that BuildWriteMetric refuses
  NoThread,  \* the holder of an unlocked mutex
  MaxBatch   \* GCLOUD_METRICS_MAX_BATCH

\* Any other row is a point: its series, and whether its value can be written
\* as JSON (an infinite or NaN DOUBLE cannot).
ASSUME MaxBatchAssumption == MaxBatch \in Nat \ {0}
ASSUME NoThreadAssumption == NoThread \notin Thread
ASSUME ChunksAssumption == \A c \in Chunks : Len(c) \in Nat /\ DOMAIN c = 1..Len(c)

VARIABLES
  pc,       \* where each thread stands
  chunk,    \* the rows it was given
  pending,  \* its points still to be sent, by row
  batch,    \* those in the request under way
  stored,   \* those the service has stored
  ok,       \* the rows whose result is "ok"
  requests, \* how many requests it has made (history)
  mutex     \* the thread that holds send_mutex

vars == <<pc, chunk, pending, batch, stored, ok, requests, mutex>>

Point(t, i)  == chunk[t][i]
Series(t, i) == chunk[t][i].series

Init ==
  /\ pc = [t \in Thread |-> "idle"]
  /\ chunk = [t \in Thread |-> << >>]
  /\ pending = [t \in Thread |-> {}]
  /\ batch = [t \in Thread |-> {}]
  /\ stored = [t \in Thread |-> {}]
  /\ ok = [t \in Thread |-> {}]
  /\ requests = [t \in Thread |-> 0]
  /\ mutex = NoThread

-----------------------------------------------------------------------------
(* GcloudSendMetricsFunction                                               *)

\* Fault: a row that cannot be mapped is passed over like a NULL row.
MapRows_PassOver(t, c) ==
  /\ pending' = [pending EXCEPT ![t] = {i \in DOMAIN c : c[i] \notin {Null, Invalid}}]
  /\ pc' = [pc EXCEPT ![t] = "lock"]

\* Fault: NULL rows are mapped too.
MapRows_WithNulls(t, c) ==
  /\ pending' = [pending EXCEPT ![t] = DOMAIN c]
  /\ pc' = [pc EXCEPT ![t] = "lock"]

\* BuildWriteMetric on every row that is not NULL; a row it refuses fails the
\* whole chunk.
MapRows(t, c) ==
  IF \E i \in DOMAIN c : c[i] = Invalid
  THEN /\ pc' = [pc EXCEPT ![t] = "failed"]
       /\ UNCHANGED pending
  ELSE /\ pc' = [pc EXCEPT ![t] = "lock"]
       /\ pending' = [pending EXCEPT ![t] = {i \in DOMAIN c : c[i] # Null}]

Evaluate(t) ==
  /\ pc[t] = "idle"
  /\ \E c \in Chunks :
       /\ chunk' = [chunk EXCEPT ![t] = c]
       /\ MapRows(t, c)
  /\ UNCHANGED <<batch, stored, ok, requests, mutex>>

\* Fault: every thread writes at once.
Lock_NotTaken(t) ==
  /\ pc[t] = "lock"
  /\ pc' = [pc EXCEPT ![t] = "pass"]
  /\ UNCHANGED <<chunk, pending, batch, stored, ok, requests, mutex>>

Lock(t) ==
  /\ pc[t] = "lock"
  /\ mutex = NoThread
  /\ mutex' = t
  /\ pc' = [pc EXCEPT ![t] = "pass"]
  /\ UNCHANGED <<chunk, pending, batch, stored, ok, requests>>

\* The earliest pending point of every series.
Firsts(t) ==
  {i \in pending[t] : \A j \in pending[t] : j < i => Series(t, j) # Series(t, i)}

\* Fault: the latest pending point of every series.
NextBatch_Latest(t) ==
  LET lasts == {i \in pending[t] : \A j \in pending[t] : j > i => Series(t, j) # Series(t, i)}
  IN  {i \in lasts : Cardinality({j \in lasts : j < i}) < MaxBatch}

\* Fault: the batch ends at the first repeat of a series.
NextBatch_CutShort(t) ==
  {i \in Firsts(t) : /\ \A j \in pending[t] : j < i => j \in Firsts(t)
                     /\ Cardinality({j \in Firsts(t) : j < i}) < MaxBatch}

\* One pass over the pending points: the first MaxBatch of them.
NextBatch(t) == {i \in Firsts(t) : Cardinality({j \in Firsts(t) : j < i}) < MaxBatch}

Unserializable(t, b) == \E i \in b : ~Point(t, i).finite

\* The body is built and the call of WriteTimeSeries begins.
Pass(t) ==
  /\ pc[t] = "pass"
  /\ pending[t] # {}
  /\ ~Unserializable(t, NextBatch(t))
  /\ batch' = [batch EXCEPT ![t] = NextBatch(t)]
  /\ pending' = [pending EXCEPT ![t] = @ \ NextBatch(t)]
  /\ requests' = [requests EXCEPT ![t] = @ + 1]
  /\ pc' = [pc EXCEPT ![t] = "call"]
  /\ UNCHANGED <<chunk, stored, ok, mutex>>

\* The service stores points of the batch; it does so once.
Store(t) ==
  /\ pc[t] = "call"
  /\ batch[t] \cap stored[t] = {}
  /\ \E points \in SUBSET batch[t] \ {{}} : stored' = [stored EXCEPT ![t] = @ \cup points]
  /\ UNCHANGED <<pc, chunk, pending, batch, ok, requests, mutex>>

\* A 2xx answer: the whole batch is stored, its rows are "ok".
CallReturns(t) ==
  /\ pc[t] = "call"
  /\ batch[t] \subseteq stored[t]
  /\ ok' = [ok EXCEPT ![t] = @ \cup batch[t]]
  /\ batch' = [batch EXCEPT ![t] = {}]
  /\ pc' = [pc EXCEPT ![t] = "pass"]
  /\ UNCHANGED <<chunk, pending, stored, requests, mutex>>

\* Fault: the exception leaves the mutex locked.
Throws_Locked(t) ==
  /\ \/ pc[t] = "call"
     \/ pc[t] = "pass" /\ pending[t] # {} /\ Unserializable(t, NextBatch(t))
  /\ pc' = [pc EXCEPT ![t] = "failed"]
  /\ batch' = [batch EXCEPT ![t] = {}]
  /\ pending' = [pending EXCEPT ![t] = {}]
  /\ UNCHANGED <<chunk, stored, ok, requests, mutex>>

\* The call fails, or the body cannot be serialized: the exception leaves the
\* function and the guard unlocks the mutex.
Throws(t) ==
  /\ \/ pc[t] = "call"
     \/ pc[t] = "pass" /\ pending[t] # {} /\ Unserializable(t, NextBatch(t))
  /\ pc' = [pc EXCEPT ![t] = "failed"]
  /\ batch' = [batch EXCEPT ![t] = {}]
  /\ pending' = [pending EXCEPT ![t] = {}]
  /\ mutex' = NoThread
  /\ UNCHANGED <<chunk, stored, ok, requests>>

Finish(t) ==
  /\ pc[t] = "pass"
  /\ pending[t] = {}
  /\ pc' = [pc EXCEPT ![t] = "done"]
  /\ mutex' = NoThread
  /\ UNCHANGED <<chunk, pending, batch, stored, ok, requests>>

Run(t) == Lock(t) \/ Pass(t) \/ CallReturns(t) \/ Throws(t) \/ Finish(t)

Next == \E t \in Thread : Evaluate(t) \/ Store(t) \/ Run(t)

\* A thread that has its chunk keeps running, and every call ends
\* (CallTerminates of GcloudClient).
Fairness == \A t \in Thread : WF_vars(Run(t))

Spec == Init /\ [][Next]_vars
FairSpec == Spec /\ Fairness

-----------------------------------------------------------------------------
(* Properties                                                              *)

\* The ranges of the variables.  What is pending, under way or stored are
\* points of the chunk.
TypeOK ==
  /\ pc \in [Thread -> {"idle", "lock", "pass", "call", "done", "failed"}]
  /\ chunk \in [Thread -> Chunks \cup {<< >>}]
  /\ \A t \in Thread :
       \A rows \in {pending[t], batch[t], stored[t], ok[t]} :
         \A i \in rows : i \in DOMAIN chunk[t] /\ Point(t, i) \notin {Null, Invalid}
  /\ requests \in [Thread -> Nat]
  /\ mutex \in Thread \cup {NoThread}

\* Cloud Monitoring takes at most MaxBatch series in a request and refuses one that
\* names a series twice; and a batch is not cut short at a repeated series
\* (send_metrics.cpp:462): a point waits only because the request is full or carries
\* its series already, whatever the order of the rows.
RequestIsAcceptable ==
  \A t \in Thread :
    /\ Cardinality(batch[t]) <= MaxBatch
    /\ \A i, j \in batch[t] : Series(t, i) = Series(t, j) => i = j
    /\ pc[t] = "call" =>
         \A i \in pending[t] : \/ Cardinality(batch[t]) = MaxBatch
                               \/ \E j \in batch[t] : Series(t, j) = Series(t, i)

\* The ascending-end-time requirement across passes (send_metrics.cpp:465): a
\* point reaches the service only after every earlier point of its series in
\* the chunk was confirmed, so a failure leaves no gap inside a series.
SeriesInOrder ==
  \A t \in Thread : \A j \in stored[t] : \A i \in 1..j - 1 :
    Point(t, i) # Null /\ Series(t, i) = Series(t, j) => i \in ok[t]

\* A row that cannot be mapped fails the chunk before any of it is written
\* (send_metrics.cpp:399).
InvalidRowWritesNothing ==
  \A t \in Thread :
    (\E i \in DOMAIN chunk[t] : Point(t, i) = Invalid) => requests[t] = 0

\* Every chunk gets its turn with the connection and comes to an end, also
\* when the writes of other threads fail.
ChunkEnds == \A t \in Thread : pc[t] = "lock" ~> pc[t] \in {"done", "failed"}

\* The chunks as RowWriter sees them.
Stage(p) == CASE p = "idle" -> "new" [] p \in {"done", "failed"} -> p [] OTHER -> "open"
stage == [t \in Thread |-> Stage(pc[t])]

\* The rows are written as RowWriter says.
RW == INSTANCE RowWriter WITH
        state <- stage, waiting <- pending, flying <- batch, landed <- stored, okay <- ok
KeepsRowWriter == RW!RWSpec
=============================================================================
