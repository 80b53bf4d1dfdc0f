------------------------------ MODULE Pushdown ------------------------------
(***************************************************************************)
(* Conservative WHERE pushdown of the logs scan.  DuckDB offers the        *)
(* conjuncts of the WHERE clause to the scan while it plans a query; the   *)
(* scan turns some of them into terms of the Logging filter it sends, and  *)
(* DuckDB still evaluates the clause on the rows that come back.  The      *)
(* terms may be too broad, never too narrow.                               *)
(*                                                                         *)
(* Times are integers of which NanosPerSecond make a second, and may lie   *)
(* before the epoch.  Severities are those of the rows and constants.      *)
(***************************************************************************)
EXTENDS Integers, Sequences

CONSTANTS
  NanosPerSecond,  \* NANOS_PER_SECOND
  Times,           \* the times of rows and constants
  Upper,           \* StringUtil::Upper on the severity constants
  LogSeverity,     \* the names IsLogSeverityName knows
  Null,            \* the NULL value and constant
  RowCaps,         \* the values of max_rows, 0 for no limit
  Filters,         \* the conjuncts DuckDB may offer
  MaxFilters       \* bound on their number

ASSUME SecondsAssumption == NanosPerSecond \in Nat \ {0} /\ Times \subseteq Int
ASSUME NullAssumption == Null \notin LogSeverity \cup Int
ASSUME UpperAssumption == \A name \in LogSeverity : name \in DOMAIN Upper /\ Upper[name] = name
ASSUME CapAssumption == RowCaps \subseteq Nat /\ MaxFilters \in Nat

VARIABLES
  phase,     \* of the statement: "bound", "planning" or "scanning"
  max_rows,
  where,     \* the conjuncts offered so far
  pushdown   \* GcloudFilterPushdown

vars == <<phase, max_rows, where, pushdown>>

NoBound == [known |-> FALSE, seconds |-> 0]
NoPushdown == [lower |-> NoBound, upper |-> NoBound, severities |-> {}, empty_result |-> FALSE]

-----------------------------------------------------------------------------
(* The clause and the request                                              *)

Row == [time_unix_nano : Times, severity_text : LogSeverity \cup {Null}]

Compare(op, a, b) ==
  CASE op = "="  -> a = b
    [] op = "<>" -> a # b
    [] op = "<"  -> a < b
    [] op = "<=" -> a <= b
    [] op = ">"  -> a > b
    [] op = ">=" -> a >= b

\* ReverseComparison.
ReverseComparison(op) ==
  CASE op = "<" -> ">" [] op = "<=" -> ">=" [] op = ">" -> "<" [] op = ">=" -> "<="
    [] OTHER -> op

\* The forms of a conjunct: a comparison of a column with a constant, on either
\* side; BETWEEN, of which a side may not be a constant (Null); IN; an
\* expression of any other form, which may hold for any row; a conjunction of
\* two of them.
SimpleFilter ==
  [class : {"comparison"}, column : {"time_unix_nano"}, op : {"=", "<>", "<", "<=", ">", ">="},
   flipped : BOOLEAN, constant : Int \cup {Null}]
    \cup [class : {"comparison"}, column : {"severity_text"}, op : {"=", "<>"},
          flipped : BOOLEAN, constant : DOMAIN Upper \cup {Null}]
    \cup [class : {"between"}, lower : Int \cup {Null}, upper : Int \cup {Null}]
    \cup [class : {"in"}, list : SUBSET DOMAIN Upper]
    \cup [class : {"other"}]

Conjunction == [class : {"and"}, left : SimpleFilter, right : SimpleFilter]

ASSUME FiltersAssumption == Filters \subseteq SimpleFilter \cup Conjunction

\* What a conjunct means in SQL.
SimpleMatch(f, row) ==
  CASE f.class = "comparison" ->
         /\ f.constant # Null /\ row[f.column] # Null
         /\ IF f.flipped THEN Compare(f.op, f.constant, row[f.column])
            ELSE Compare(f.op, row[f.column], f.constant)
    [] f.class = "between" ->
         /\ f.lower # Null => row.time_unix_nano >= f.lower
         /\ f.upper # Null => row.time_unix_nano <= f.upper
    [] f.class = "in"    -> row.severity_text # Null /\ row.severity_text \in f.list
    [] f.class = "other" -> TRUE

Match(f, row) ==
  IF f.class = "and" THEN SimpleMatch(f.left, row) /\ SimpleMatch(f.right, row)
  ELSE SimpleMatch(f, row)

\* ApplyGcloudPushdown: the terms of the request; the service compares whole
\* timestamps with them.
Requested(row) ==
  /\ pushdown.lower.known => row.time_unix_nano >= pushdown.lower.seconds * NanosPerSecond
  /\ pushdown.upper.known => row.time_unix_nano <= pushdown.upper.seconds * NanosPerSecond
  /\ pushdown.severities # {} => row.severity_text \in pushdown.severities

-----------------------------------------------------------------------------
(* The translation                                                         *)

\* Division and remainder of C++: toward zero.
Quotient(n)  == IF n >= 0 THEN n \div NanosPerSecond ELSE -((-n) \div NanosPerSecond)
Remainder(n) == n - Quotient(n) * NanosPerSecond

\* Fault: the quotient is taken for the floor.
FloorSeconds_Truncated(n) == Quotient(n)

\* FloorNanosecondsToSeconds, CeilNanosecondsToSeconds.
FloorSeconds(n) == IF Remainder(n) < 0 THEN Quotient(n) - 1 ELSE Quotient(n)
CeilSeconds(n)  == IF Remainder(n) > 0 THEN Quotient(n) + 1 ELSE Quotient(n)

AddLowerBound(pd, s) ==
  IF ~pd.lower.known \/ s > pd.lower.seconds
  THEN [pd EXCEPT !.lower = [known |-> TRUE, seconds |-> s]] ELSE pd

AddUpperBound(pd, s) ==
  IF ~pd.upper.known \/ s < pd.upper.seconds
  THEN [pd EXCEPT !.upper = [known |-> TRUE, seconds |-> s]] ELSE pd

IsSeverity(constant) == constant # Null /\ Upper[constant] \in LogSeverity

\* Fault: a constant that names no severity is pushed too.
AddSeverity_Any(pd, constant) ==
  IF constant # Null THEN [pd EXCEPT !.severities = @ \cup {Upper[constant]}] ELSE pd

AddSeverity(pd, constant) ==
  IF IsSeverity(constant) THEN [pd EXCEPT !.severities = @ \cup {Upper[constant]}] ELSE pd

TryPushComparison(pd, f) ==
  LET op == IF f.flipped THEN ReverseComparison(f.op) ELSE f.op IN
  CASE f.constant = Null -> pd
    [] f.constant # Null /\ f.column = "severity_text" ->
         IF op = "=" THEN AddSeverity(pd, f.constant) ELSE pd
    [] f.constant # Null /\ f.column = "time_unix_nano" ->
         CASE op = "="           -> AddUpperBound(AddLowerBound(pd, FloorSeconds(f.constant)),
                                                  CeilSeconds(f.constant))
           [] op \in {">", ">="} -> AddLowerBound(pd, FloorSeconds(f.constant))
           [] op \in {"<", "<="} -> AddUpperBound(pd, CeilSeconds(f.constant))
           [] OTHER              -> pd

\* Each side of a BETWEEN that is a constant.
TryPushBetween(pd, f) ==
  LET lowered == IF f.lower = Null THEN pd ELSE AddLowerBound(pd, FloorSeconds(f.lower))
  IN  IF f.upper = Null THEN lowered ELSE AddUpperBound(lowered, CeilSeconds(f.upper))

\* All of an IN list or nothing.
TryPushInClause(pd, f) ==
  IF \A constant \in f.list : IsSeverity(constant)
  THEN [pd EXCEPT !.severities = @ \cup {Upper[constant] : constant \in f.list}] ELSE pd

TryPushSimple(pd, f) ==
  CASE f.class = "comparison" -> TryPushComparison(pd, f)
    [] f.class = "between"    -> TryPushBetween(pd, f)
    [] f.class = "in"         -> TryPushInClause(pd, f)
    [] OTHER                  -> pd

TryPushExpression(pd, f) ==
  IF f.class = "and" THEN TryPushSimple(TryPushSimple(pd, f.left), f.right)
  ELSE TryPushSimple(pd, f)

-----------------------------------------------------------------------------
(* The life of a statement                                                 *)

Init ==
  /\ phase = "bound"
  /\ max_rows \in RowCaps
  /\ where = << >>
  /\ pushdown = NoPushdown

\* PushdownComplexFilter is called, perhaps again, and starts from nothing.
Plan ==
  /\ phase # "planning"
  /\ phase' = "planning"
  /\ where' = << >>
  /\ pushdown' = NoPushdown
  /\ UNCHANGED max_rows

\* One conjunct of the clause.  With max_rows nothing is pushed: the rows that
\* compete for the limit must not depend on the clause.
PushFilter ==
  /\ phase = "planning"
  /\ Len(where) < MaxFilters
  /\ \E f \in Filters :
       /\ where' = Append(where, f)
       /\ pushdown' = IF max_rows > 0 THEN pushdown ELSE TryPushExpression(pushdown, f)
  /\ UNCHANGED <<phase, max_rows>>

Contradictory(pd) ==
  pd.lower.known /\ pd.upper.known /\ pd.lower.seconds > pd.upper.seconds

\* The end of the call, and InitGlobal.
StartScan ==
  /\ phase = "planning"
  /\ phase' = "scanning"
  /\ pushdown' = [pushdown EXCEPT !.empty_result = max_rows = 0 /\ Contradictory(pushdown)]
  /\ UNCHANGED <<max_rows, where>>

Next == Plan \/ PushFilter \/ StartScan

Spec == Init /\ [][Next]_vars

-----------------------------------------------------------------------------
(* Properties                                                              *)

Matches(row) == \A i \in DOMAIN where : Match(where[i], row)

\* The ranges of the variables.
TypeOK ==
  /\ phase \in {"bound", "planning", "scanning"}
  /\ max_rows \in RowCaps
  /\ where \in Seq(Filters) /\ Len(where) <= MaxFilters
  /\ pushdown.lower.seconds \in Int /\ pushdown.upper.seconds \in Int
  /\ pushdown.severities \subseteq LogSeverity
  /\ pushdown.empty_result \in BOOLEAN

\* A row that satisfies the WHERE clause is requested, and the request is not
\* skipped (logs_table.cpp:620): a term that is too narrow would silently drop
\* rows, because DuckDB cannot ask for them again.  With max_rows the request does
\* not depend on the clause at all (logs_table.cpp:861).
NoMatchIsLost ==
  \A row \in Row :
    /\ Matches(row) => Requested(row) /\ ~pushdown.empty_result
    /\ max_rows > 0 => Requested(row)
=============================================================================
