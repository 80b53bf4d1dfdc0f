------------------------------ MODULE SendLogs ------------------------------
(***************************************************************************)
(* send_gcloud_logs: every projection thread of a query maps its chunk of  *)
(* rows to log entries, then, holding the statement's send_mutex, writes   *)
(* them in consecutive batches bounded in entries and in bytes.            *)
(*                                                                         *)
(* A write is one call of GcloudClient, seen here as RemoteCall describes  *)
(* it: it reaches the service at most once and may fail before or after.   *)
(* The request sets partialSuccess to false: the service stores all of its *)
(* entries or none.                                                        *)
(***************************************************************************)
EXTENDS Integers, Sequences, FiniteSetsExt

CONSTANTS
  Thread,    \* the threads that evaluate the projection
  Chunks,    \* the chunks of rows they may be given
  Null,      \* a NULL row
  NoThread,  \* the holder of an unlocked mutex
  MaxBatch,  \* GCLOUD_WRITE_MAX_BATCH
  MaxBytes   \* GCLOUD_WRITE_MAX_BATCH_BYTES

\* Any other row has an estimated size and what is wrong with it: "nothing",
\* "attributes" that are not a JSON object, or a log "name" of another project
\* or a log id with characters that Cloud Logging does not allow.
ASSUME LimitsAssumption == MaxBatch \in Nat \ {0} /\ MaxBytes \in Nat
ASSUME NoThreadAssumption == NoThread \notin Thread
ASSUME ChunksAssumption ==
  \A c \in Chunks :
    /\ Len(c) \in Nat /\ DOMAIN c = 1..Len(c)
    /\ \A i \in DOMAIN c : c[i] = Null \/ c[i].wrong \in {"nothing", "attributes", "name"}

VARIABLES
  pc,      \* where each thread stands
  chunk,   \* the rows it was given
  logs,    \* the entries they were mapped to
  offset,  \* how many of them are confirmed
  flying,  \* how many are in the request under way
  stored,  \* those the service has stored
  ok,      \* the entries whose row has the result "ok"
  mutex    \* the thread that holds send_mutex

vars == <<pc, chunk, logs, offset, flying, stored, ok, mutex>>

Init ==
  /\ pc = [t \in Thread |-> "idle"]
  /\ chunk = [t \in Thread |-> << >>]
  /\ logs = [t \in Thread |-> << >>]
  /\ offset = [t \in Thread |-> 0]
  /\ flying = [t \in Thread |-> 0]
  /\ stored = [t \in Thread |-> {}]
  /\ ok = [t \in Thread |-> {}]
  /\ mutex = NoThread

-----------------------------------------------------------------------------
(* GcloudSendLogsFunction                                                  *)

\* Fault: attributes are not looked at until a batch is made.
Refused_Never(row) == FALSE

\* BuildWriteLog validates the attributes of a row.
Refused(row) == row # Null /\ row.wrong = "attributes"

\* The entries of a chunk, one after the other, as the loop over its rows adds them.
Mapped(c) ==
  LET f[n \in 0..Len(c)] ==
        IF n = 0 THEN << >> ELSE IF c[n] = Null THEN f[n - 1] ELSE Append(f[n - 1], c[n])
  IN  f[Len(c)]

\* Every row that is not NULL is mapped; one that is refused fails the chunk.
Evaluate(t) ==
  /\ pc[t] = "idle"
  /\ \E c \in Chunks :
       /\ chunk' = [chunk EXCEPT ![t] = c]
       /\ IF \E i \in DOMAIN c : Refused(c[i])
          THEN /\ pc' = [pc EXCEPT ![t] = "failed"]
               /\ UNCHANGED logs
          ELSE /\ pc' = [pc EXCEPT ![t] = "lock"]
               /\ logs' = [logs EXCEPT ![t] = Mapped(c)]
  /\ UNCHANGED <<offset, flying, stored, ok, mutex>>

Lock(t) ==
  /\ pc[t] = "lock"
  /\ mutex = NoThread
  /\ mutex' = t
  /\ pc' = [pc EXCEPT ![t] = "batch"]
  /\ UNCHANGED <<chunk, logs, offset, flying, stored, ok>>

\* The entries after the first n, up to the m-th, and their estimated bytes.
Entries(t, n, m) == SubSeq(logs[t], n + 1, m)
Estimate(entries) == FoldFunction(LAMBDA log, sum : sum + log.bytes, 0, entries)
Bytes(t, n, m) == Estimate(Entries(t, n, m))

\* Fault: the limit is checked before the entry that exceeds it is counted.
BatchEnd_Late(t) ==
  Max({m \in offset[t] + 1 .. Len(logs[t]) :
         /\ m - offset[t] <= MaxBatch
         /\ m > offset[t] + 1 => Bytes(t, offset[t], m - 1) <= MaxBytes})

\* Fault: an entry above the limit gets no batch of its own.
BatchEnd_NoFirst(t) ==
  Max({offset[t]} \cup {m \in offset[t] + 1 .. Len(logs[t]) :
         /\ m - offset[t] <= MaxBatch
         /\ Bytes(t, offset[t], m) <= MaxBytes})

\* batch_end: entries are added while both limits allow it; the first one is
\* added whatever its size.
BatchEnd(t) ==
  Max({m \in offset[t] + 1 .. Len(logs[t]) :
         /\ m - offset[t] <= MaxBatch
         /\ m > offset[t] + 1 => Bytes(t, offset[t], m) <= MaxBytes})

\* BuildGcloudWriteBody parses the attributes again and throws on a log name.
Unwritable(t) ==
  \E i \in offset[t] + 1 .. BatchEnd(t) : logs[t][i].wrong # "nothing"

\* The body is built and the call of WriteEntries begins.
Batch(t) ==
  /\ pc[t] = "batch"
  /\ offset[t] < Len(logs[t])
  /\ ~Unwritable(t)
  /\ flying' = [flying EXCEPT ![t] = BatchEnd(t) - offset[t]]
  /\ pc' = [pc EXCEPT ![t] = "call"]
  /\ UNCHANGED <<chunk, logs, offset, stored, ok, mutex>>

InFlight(t) == offset[t] + 1 .. offset[t] + flying[t]

\* The service stores the batch; it does so once.
Store(t) ==
  /\ pc[t] = "call"
  /\ ~(InFlight(t) \subseteq stored[t])
  /\ stored' = [stored EXCEPT ![t] = @ \cup InFlight(t)]
  /\ UNCHANGED <<pc, chunk, logs, offset, flying, ok, mutex>>

\* Fault: the next batch begins at the last entry of this one.
CallReturns_OffByOne(t) ==
  /\ pc[t] = "call"
  /\ InFlight(t) \subseteq stored[t]
  /\ ok' = [ok EXCEPT ![t] = @ \cup InFlight(t)]
  /\ offset' = [offset EXCEPT ![t] = IF @ + flying[t] < Len(logs[t]) /\ flying[t] > 1
                                     THEN @ + flying[t] - 1 ELSE @ + flying[t]]
  /\ flying' = [flying EXCEPT ![t] = 0]
  /\ pc' = [pc EXCEPT ![t] = "batch"]
  /\ UNCHANGED <<chunk, logs, stored, mutex>>

\* Fault: the next batch begins one entry too far.
CallReturns_Skip(t) ==
  /\ pc[t] = "call"
  /\ InFlight(t) \subseteq stored[t]
  /\ ok' = [ok EXCEPT ![t] = @ \cup InFlight(t)]
  /\ offset' = [offset EXCEPT ![t] = Min({@ + flying[t] + 1, Len(logs[t])})]
  /\ flying' = [flying EXCEPT ![t] = 0]
  /\ pc' = [pc EXCEPT ![t] = "batch"]
  /\ UNCHANGED <<chunk, logs, stored, mutex>>

\* A 2xx answer: the batch is stored, its rows are "ok".
CallReturns(t) ==
  /\ pc[t] = "call"
  /\ InFlight(t) \subseteq stored[t]
  /\ ok' = [ok EXCEPT ![t] = @ \cup InFlight(t)]
  /\ offset' = [offset EXCEPT ![t] = @ + flying[t]]
  /\ flying' = [flying EXCEPT ![t] = 0]
  /\ pc' = [pc EXCEPT ![t] = "batch"]
  /\ UNCHANGED <<chunk, logs, stored, mutex>>

\* The call fails, or the body cannot be built: the exception leaves the
\* function and the guard unlocks the mutex.
Throws(t) ==
  /\ \/ pc[t] = "call"
     \/ pc[t] = "batch" /\ offset[t] < Len(logs[t]) /\ Unwritable(t)
  /\ pc' = [pc EXCEPT ![t] = "failed"]
  /\ flying' = [flying EXCEPT ![t] = 0]
  /\ mutex' = NoThread
  /\ UNCHANGED <<chunk, logs, offset, stored, ok>>

Finish(t) ==
  /\ pc[t] = "batch"
  /\ offset[t] >= Len(logs[t])
  /\ pc' = [pc EXCEPT ![t] = "done"]
  /\ mutex' = NoThread
  /\ UNCHANGED <<chunk, logs, offset, flying, stored, ok>>

Run(t) == Lock(t) \/ Batch(t) \/ CallReturns(t) \/ Throws(t) \/ Finish(t)

Next == \E t \in Thread : Evaluate(t) \/ Store(t) \/ Run(t)

\* A thread that has its chunk keeps running, and every call ends
\* (CallTerminates of GcloudClient).
Fairness == \A t \in Thread : WF_vars(Run(t))

Spec == Init /\ [][Next]_vars
FairSpec == Spec /\ Fairness

-----------------------------------------------------------------------------
(* Properties                                                              *)

\* The ranges of the variables.
TypeOK ==
  /\ pc \in [Thread -> {"idle", "lock", "batch", "call", "done", "failed"}]
  /\ chunk \in [Thread -> Chunks \cup {<< >>}]
  /\ \A t \in Thread :
       /\ \A i \in DOMAIN logs[t] : logs[t][i].wrong \in {"nothing", "name"}
       /\ offset[t] \in 0..Len(logs[t])
       /\ flying[t] \in 0..Len(logs[t]) - offset[t]
       /\ stored[t] \subseteq DOMAIN logs[t] /\ ok[t] \subseteq DOMAIN logs[t]
  /\ mutex \in Thread \cup {NoThread}

\* A request stays below the limits of entries.write, unless a single entry
\* is above the byte limit already.
BatchWithinLimits ==
  \A t \in Thread :
    /\ flying[t] <= MaxBatch
    /\ flying[t] > 1 => Bytes(t, offset[t], offset[t] + flying[t]) <= MaxBytes

\* Whatever fails and whenever, what the service has of a chunk is its first
\* entries in order, and all of them if the chunk did not fail.
StoredIsPrefix ==
  \A t \in Thread :
    /\ \E n \in offset[t]..Len(logs[t]) : stored[t] = 1..n
    /\ pc[t] = "done" => stored[t] = DOMAIN logs[t] /\ ok[t] = stored[t]

\* Every chunk gets its turn with the connection and comes to an end: the batch
\* loop always takes at least one entry.
ChunkEnds == \A t \in Thread : pc[t] = "lock" ~> pc[t] \in {"done", "failed"}

\* The chunks as RowWriter sees them.
Stage(p) == CASE p = "idle" -> "new" [] p \in {"done", "failed"} -> p [] OTHER -> "open"
Waiting(t) == IF pc[t] = "failed" THEN {} ELSE offset[t] + flying[t] + 1 .. Len(logs[t])
stage    == [t \in Thread |-> Stage(pc[t])]
waiting  == [t \in Thread |-> Waiting(t)]
underway == [t \in Thread |-> InFlight(t)]

\* The entries are written as RowWriter says.
RW == INSTANCE RowWriter WITH
        state <- stage, flying <- underway, landed <- stored, okay <- ok
KeepsRowWriter == RW!RWSpec

\* "Validate the whole input chunk before the first batch is sent [...]
\* discovering them batch-by-batch could write an earlier batch before a later
\* row fails" (send_logs.cpp:349): a chunk with a row that send_gcloud_logs
\* itself refuses writes nothing.
RefusedRowWritesNothing ==
  \A t \in Thread :
    (\E i \in DOMAIN chunk[t] : chunk[t][i] # Null /\ chunk[t][i].wrong # "nothing")
      => stored[t] = {}
=============================================================================
