---------------------------- MODULE MCTokenCache ----------------------------
(***************************************************************************)
(* TokenCache for two threads, each with the read configuration, the write *)
(* configuration or a supplied TOKEN.  A lifetime of 1 is within the       *)
(* margin, so such a token is never reused; one of 3 is reused for one     *)
(* second.                                                                 *)
(***************************************************************************)
EXTENDS TokenCache, TLC

CONSTANTS t1, t2, read, write

MCThread == {t1, t2}
MCConfig == {read, write}
MCLifetimes == {1, 3}
MCSymmetry == Permutations(MCThread) \cup Permutations(MCConfig)
=============================================================================
