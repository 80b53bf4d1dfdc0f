----------------------------- MODULE RowWriter ------------------------------
(***************************************************************************)
(* What send_gcloud_logs and send_gcloud_metrics promise of the rows they  *)
(* are given, with batching, limits and validation left out.               *)
(*                                                                         *)
(* Several threads of a query each write the rows of one chunk, in batches *)
(* that share one connection: one batch is under way at a time.  A row     *)
(* goes out in one batch only and is stored at most once.  It is reported  *)
(* as "ok" only when its whole batch is stored.  A chunk fails as a whole: *)
(* what was stored stays stored, and nothing of the chunk is sent after.   *)
(***************************************************************************)
EXTENDS Naturals

CONSTANT Thread

VARIABLES state,    \* of each thread's chunk: "new", "open", "done" or "failed"
          waiting,  \* its rows not sent yet
          flying,   \* its rows in the batch under way
          landed,   \* its rows the service has stored
          okay      \* its rows reported as "ok"

rwvars == <<state, waiting, flying, landed, okay>>

RWInit ==
  /\ state = [t \in Thread |-> "new"]
  /\ waiting = [t \in Thread |-> {}]
  /\ flying = [t \in Thread |-> {}]
  /\ landed = [t \in Thread |-> {}]
  /\ okay = [t \in Thread |-> {}]

Open(t) ==
  /\ state[t] = "new"
  /\ state' = [state EXCEPT ![t] = "open"]
  /\ waiting'[t] \subseteq Nat
  /\ waiting' = [waiting EXCEPT ![t] = waiting'[t]]
  /\ UNCHANGED <<flying, landed, okay>>

Send(t) ==
  /\ state[t] = "open"
  /\ \A u \in Thread : flying[u] = {}
  /\ flying'[t] # {} /\ flying'[t] \subseteq waiting[t]
  /\ flying' = [flying EXCEPT ![t] = flying'[t]]
  /\ waiting' = [waiting EXCEPT ![t] = @ \ flying'[t]]
  /\ UNCHANGED <<state, landed, okay>>

\* The service stores rows of the batch that it has not stored yet.
Land(t) ==
  /\ state[t] = "open"
  /\ landed[t] \subseteq landed'[t]
  /\ landed'[t] \ landed[t] \subseteq flying[t]
  /\ landed' = [landed EXCEPT ![t] = landed'[t]]
  /\ UNCHANGED <<state, waiting, flying, okay>>

Acknowledge(t) ==
  /\ state[t] = "open"
  /\ flying[t] # {} /\ flying[t] \subseteq landed[t]
  /\ okay' = [okay EXCEPT ![t] = @ \cup flying[t]]
  /\ flying' = [flying EXCEPT ![t] = {}]
  /\ UNCHANGED <<state, waiting, landed>>

Abandon(t) ==
  /\ state[t] \in {"new", "open"}
  /\ state' = [state EXCEPT ![t] = "failed"]
  /\ waiting' = [waiting EXCEPT ![t] = {}]
  /\ flying' = [flying EXCEPT ![t] = {}]
  /\ UNCHANGED <<landed, okay>>

Close(t) ==
  /\ state[t] = "open"
  /\ waiting[t] = {} /\ flying[t] = {}
  /\ state' = [state EXCEPT ![t] = "done"]
  /\ UNCHANGED <<waiting, flying, landed, okay>>

RWNext ==
  \E t \in Thread :
    Open(t) \/ Send(t) \/ Land(t) \/ Acknowledge(t) \/ Abandon(t) \/ Close(t)

RWSpec == RWInit /\ [][RWNext]_rwvars
=============================================================================
