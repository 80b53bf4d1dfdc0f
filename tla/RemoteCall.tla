----------------------------- MODULE RemoteCall -----------------------------
(***************************************************************************)
(* What one call of GcloudClient promises its caller, with the retries,    *)
(* tokens and sockets left out.                                            *)
(*                                                                         *)
(* A call carries one request body to the service.  A read may be carried  *)
(* out several times; a write is carried out at most once, whatever the    *)
(* client does on the way.  The call returns "ok" only if the service did  *)
(* carry it out; it may fail at any time, and a failure leaves it open     *)
(* whether the service carried the request out.                            *)
(***************************************************************************)
EXTENDS Naturals

CONSTANTS Reads,    \* the operations that may be repeated
          Writes    \* the operations that may not

VARIABLES kind,     \* the operation under way, or the last one
          applied,  \* how often the service has carried it out
          verdict   \* "none" before the first call, then "pending" or the result

rcvars == <<kind, applied, verdict>>

Failures == {"io_error", "interrupted"}

RCInit ==
  /\ kind \in Reads \cup Writes
  /\ applied = 0
  /\ verdict = "none"

Begin ==
  /\ verdict # "pending"
  /\ kind' \in Reads \cup Writes
  /\ applied' = 0
  /\ verdict' = "pending"

\* The service carries the request out; for a write this happens once.
Apply ==
  /\ verdict = "pending"
  /\ kind \in Writes => applied = 0
  /\ applied' = applied + 1
  /\ UNCHANGED <<kind, verdict>>

Succeed ==
  /\ verdict = "pending"
  /\ applied > 0
  /\ verdict' = "ok"
  /\ UNCHANGED <<kind, applied>>

Fail ==
  /\ verdict = "pending"
  /\ verdict' \in Failures
  /\ UNCHANGED <<kind, applied>>

RCNext == Begin \/ Apply \/ Succeed \/ Fail

RCSpec == RCInit /\ [][RCNext]_rcvars
=============================================================================
