--------------------------- MODULE MCSendMetrics ----------------------------
(***************************************************************************)
(* SendMetrics for two threads and chunks of up to four rows of three      *)
(* series, with NULL rows, rows that cannot be mapped and values that JSON *)
(* cannot hold; a request carries two points.                              *)
(***************************************************************************)
EXTENDS SendMetrics

CONSTANTS t1, t2, A, B, C

MCThread == {t1, t2}

Finite(s) == [series |-> s, finite |-> TRUE]
Infinite == [series |-> A, finite |-> FALSE]

Orders == [1..4 -> {Finite(A), Finite(B), Finite(C)}]

\* The names of the series do not matter: B first appears after A, C after B.
Named(c) ==
  /\ c[1] = Finite(A)
  /\ \A i \in 1..4 : c[i] = Finite(C) => \E j \in 1..i - 1 : c[j] = Finite(B)

MCChunks ==
  {<< >>, <<Finite(B), Null, Finite(B), Finite(A)>>}
    \cup {c \in Orders : Named(c)}
    \cup [1..2 -> {Finite(A), Infinite, Null, Invalid}]
=============================================================================
