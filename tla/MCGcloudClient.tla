--------------------------- MODULE MCGcloudClient ---------------------------
(***************************************************************************)
(* GcloudClient with retry budgets of 0 (retrying disabled), 2 and 7 (past *)
(* the cap of the backoff) and a Retry-After below, inside and above the   *)
(* range the client follows.                                               *)
(***************************************************************************)
EXTENDS GcloudClient

MCRetryBudgets == {0, 2, 7}
MCRetryAfter == {-1, 30, 3600}
=============================================================================
