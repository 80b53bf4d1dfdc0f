----------------------------- MODULE TimeTexts ------------------------------
(***************************************************************************)
(* Times as the extension handles them: a number of nanoseconds since the  *)
(* epoch in a 64-bit integer, perhaps negative, and the RFC 3339 texts     *)
(* that are written and read.  A text is the number of whole seconds up to *)
(* its instant, rounded down, and the fraction that follows.               *)
(***************************************************************************)
EXTENDS Integers

CONSTANTS
  NanosPerSecond,
  NanosPerMicro,      \* DuckDB keeps timestamps in microseconds
  MinNanos, MaxNanos  \* the range of int64_t

ASSUME TimeTextsAssumption ==
  /\ NanosPerMicro \in Nat \ {0}
  /\ NanosPerSecond \in Nat \ {0}
  /\ NanosPerSecond = (NanosPerSecond \div NanosPerMicro) * NanosPerMicro
  /\ MinNanos \in Int /\ MaxNanos \in Int

Nanos == MinNanos..MaxNanos

\* Division and remainder of C++: toward zero.
Quotient(n, d)  == IF n >= 0 THEN n \div d ELSE -((-n) \div d)
Remainder(n, d) == n - Quotient(n, d) * d

\* FormatRfc3339Nanos: before the epoch the quotient is a second late and the
\* remainder negative.
FormatRfc3339Nanos(n) ==
  LET seconds  == Quotient(n, NanosPerSecond)
      fraction == Remainder(n, NanosPerSecond)
  IN  IF fraction < 0 THEN [seconds |-> seconds - 1, fraction |-> fraction + NanosPerSecond]
      ELSE [seconds |-> seconds, fraction |-> fraction]

\* The microsecond DuckDB's parser finds a text to lie in.
Micros(text) ==
  text.seconds * (NanosPerSecond \div NanosPerMicro) + (text.fraction \div NanosPerMicro)

\* ParseRfc3339ToNanos: the start of that microsecond must be in range, too.  The set
\* of the time read; none if the text is refused.
ParseRfc3339ToNanos(text) ==
  IF Micros(text) * NanosPerMicro \in Nanos
  THEN {Micros(text) * NanosPerMicro + (text.fraction % NanosPerMicro)} ELSE {}

\* A time whose text can be read: one not in the lowest microsecond, of which only a
\* part is in range.
Readable(n) == n \in Nanos /\ n - (n % NanosPerMicro) >= MinNanos
=============================================================================
