----------------------------- MODULE MCSendLogs -----------------------------
(***************************************************************************)
(* SendLogs for two threads and chunks of up to three rows; a request      *)
(* carries two entries and three bytes, so that both limits cut batches    *)
(* and a single entry can be above the byte limit.                         *)
(***************************************************************************)
EXTENDS SendLogs

CONSTANTS t1, t2

MCThread == {t1, t2}

Entry(n) == [bytes |-> n, wrong |-> "nothing"]

Wrong(what) == [bytes |-> 1, wrong |-> what]

MCChunks ==
  UNION {[1..n -> {Entry(1), Entry(2), Entry(4), Null}] : n \in 0..2}
    \cup [1..3 -> {Entry(1), Entry(2), Entry(4)}]
    \cup {<<Entry(1), Entry(1), Wrong(what)>> : what \in {"attributes", "name"}}
    \cup {<<Wrong("name"), Wrong(what)>> : what \in {"attributes", "nothing"}}
=============================================================================
