--------------------------- MODULE PushdownProofs ---------------------------
(***************************************************************************)
(* Proofs about Pushdown, for every set of filters, every width of a       *)
(* second and clauses of any length: no row that satisfies the clause is   *)
(* left out of the request.  The invariant says it of the terms as they    *)
(* are collected, conjunct by conjunct.                                    *)
(***************************************************************************)
EXTENDS Pushdown, SequenceTheorems, TLAPS

Bound == [known : BOOLEAN, seconds : Int]

Terms == [lower : Bound, upper : Bound, severities : SUBSET LogSeverity, empty_result : BOOLEAN]

\* The rows that satisfy given terms.
Asks(pd, row) ==
  /\ pd.lower.known => row.time_unix_nano >= pd.lower.seconds * NanosPerSecond
  /\ pd.upper.known => row.time_unix_nano <= pd.upper.seconds * NanosPerSecond
  /\ pd.severities # {} => row.severity_text \in pd.severities

IInv ==
  /\ phase \in {"bound", "planning", "scanning"}
  /\ max_rows \in RowCaps
  /\ where \in Seq(Filters) /\ Len(where) <= MaxFilters
  /\ pushdown \in Terms
  /\ \A row \in Row : Matches(row) => Asks(pushdown, row)
  /\ max_rows > 0 => pushdown = NoPushdown
  /\ phase # "scanning" => ~pushdown.empty_result
  /\ pushdown.empty_result => Contradictory(pushdown)

-----------------------------------------------------------------------------
(* Rounding                                                                *)

LEMMA FloorIsBelow ==
  ASSUME NEW n \in Int
  PROVE  FloorSeconds(n) \in Int /\ FloorSeconds(n) * NanosPerSecond <= n
BY SecondsAssumption, SMT DEF FloorSeconds, Remainder, Quotient

LEMMA CeilIsAbove ==
  ASSUME NEW n \in Int
  PROVE  CeilSeconds(n) \in Int /\ n <= CeilSeconds(n) * NanosPerSecond
BY SecondsAssumption, SMT DEF CeilSeconds, Remainder, Quotient

LEMMA Crossing ==
  ASSUME NEW l \in Int, NEW u \in Int, NEW t \in Int,
         l * NanosPerSecond <= t, t <= u * NanosPerSecond
  PROVE  l <= u
<1> SUFFICES ASSUME l >= u + 1 PROVE FALSE
  BY SMT
<1>1. l * NanosPerSecond >= (u + 1) * NanosPerSecond
  BY SecondsAssumption, SMT
<1>2. (u + 1) * NanosPerSecond = u * NanosPerSecond + NanosPerSecond
  BY SecondsAssumption, SMT
<1> QED
  BY <1>1, <1>2, SecondsAssumption, SMT

LEMMA RowTyped ==
  ASSUME NEW row \in Row
  PROVE  row.time_unix_nano \in Int
BY SecondsAssumption DEF Row

-----------------------------------------------------------------------------
(* The terms stay well-formed                                              *)

LEMMA AddLowerTyped ==
  ASSUME NEW pd \in Terms, NEW s \in Int
  PROVE  /\ AddLowerBound(pd, s) \in Terms
         /\ AddLowerBound(pd, s).empty_result = pd.empty_result
BY DEF AddLowerBound, Terms, Bound

LEMMA AddUpperTyped ==
  ASSUME NEW pd \in Terms, NEW s \in Int
  PROVE  /\ AddUpperBound(pd, s) \in Terms
         /\ AddUpperBound(pd, s).empty_result = pd.empty_result
BY DEF AddUpperBound, Terms, Bound

LEMMA AddSeverityTyped ==
  ASSUME NEW pd \in Terms, NEW c
  PROVE  /\ AddSeverity(pd, c) \in Terms
         /\ AddSeverity(pd, c).empty_result = pd.empty_result
BY DEF AddSeverity, IsSeverity, Terms, Bound

\* The four classes of a simple filter, with the types of their constants.
LEMMA Classes ==
  ASSUME NEW f \in SimpleFilter
  PROVE  \/ /\ f.class = "comparison" /\ f.column = "time_unix_nano"
            /\ f.op \in {"=", "<>", "<", "<=", ">", ">="} /\ f.flipped \in BOOLEAN
            /\ f.constant # Null => f.constant \in Int
         \/ /\ f.class = "comparison" /\ f.column = "severity_text"
            /\ f.op \in {"=", "<>"} /\ f.flipped \in BOOLEAN
         \/ /\ f.class = "between"
            /\ f.lower # Null => f.lower \in Int
            /\ f.upper # Null => f.upper \in Int
         \/ f.class = "in"
         \/ f.class = "other"
BY DEF SimpleFilter

LEMMA SimpleTyped ==
  ASSUME NEW pd \in Terms, NEW f \in SimpleFilter
  PROVE  /\ TryPushSimple(pd, f) \in Terms
         /\ TryPushSimple(pd, f).empty_result = pd.empty_result
<1>1. CASE /\ f.class = "comparison" /\ f.column = "time_unix_nano"
           /\ f.op \in {"=", "<>", "<", "<=", ">", ">="} /\ f.flipped \in BOOLEAN
           /\ f.constant # Null => f.constant \in Int
  <2>1. TryPushSimple(pd, f) = TryPushComparison(pd, f)
    BY <1>1 DEF TryPushSimple
  <2>2. CASE f.constant = Null
    BY <2>1, <2>2 DEF TryPushComparison
  <2>3. CASE f.constant # Null
    <3> DEFINE lowered == AddLowerBound(pd, FloorSeconds(f.constant))
               uppered == AddUpperBound(pd, CeilSeconds(f.constant))
               both    == AddUpperBound(lowered, CeilSeconds(f.constant))
    <3>1. lowered \in Terms /\ lowered.empty_result = pd.empty_result
      BY <1>1, <2>3, FloorIsBelow, AddLowerTyped
    <3>2. uppered \in Terms /\ uppered.empty_result = pd.empty_result
      BY <1>1, <2>3, CeilIsAbove, AddUpperTyped
    <3> HIDE DEF lowered
    <3>3. both \in Terms /\ both.empty_result = pd.empty_result
      BY <1>1, <2>3, <3>1, CeilIsAbove, AddUpperTyped
    <3>4. TryPushComparison(pd, f) \in {pd, lowered, uppered, both}
      BY <1>1, <2>3 DEF TryPushComparison, ReverseComparison, lowered
    <3> QED
      BY <2>1, <3>1, <3>2, <3>3, <3>4
  <2> QED
    BY <2>2, <2>3
<1>2. CASE /\ f.class = "comparison" /\ f.column = "severity_text"
           /\ f.op \in {"=", "<>"} /\ f.flipped \in BOOLEAN
  <2>1. TryPushSimple(pd, f) \in {pd, AddSeverity(pd, f.constant)}
    BY <1>2 DEF TryPushSimple, TryPushComparison
  <2> QED
    BY <2>1, AddSeverityTyped
<1>3. CASE /\ f.class = "between"
           /\ f.lower # Null => f.lower \in Int
           /\ f.upper # Null => f.upper \in Int
  <2> DEFINE lowered == IF f.lower = Null THEN pd ELSE AddLowerBound(pd, FloorSeconds(f.lower))
  <2>1. lowered \in Terms /\ lowered.empty_result = pd.empty_result
    BY <1>3, FloorIsBelow, AddLowerTyped
  <2>2. TryPushSimple(pd, f) =
          IF f.upper = Null THEN lowered ELSE AddUpperBound(lowered, CeilSeconds(f.upper))
    BY <1>3 DEF TryPushSimple, TryPushBetween
  <2> HIDE DEF lowered
  <2>3. CASE f.upper = Null
    BY <2>1, <2>2, <2>3
  <2>4. CASE f.upper # Null
    <3>1. CeilSeconds(f.upper) \in Int
      BY <1>3, <2>4, CeilIsAbove
    <3>2. TryPushSimple(pd, f) = AddUpperBound(lowered, CeilSeconds(f.upper))
      BY <2>2, <2>4
    <3> QED
      BY <2>1, <3>1, <3>2, AddUpperTyped
  <2> QED
    BY <2>3, <2>4
<1>4. CASE f.class = "in"
  <2>1. TryPushSimple(pd, f) = TryPushInClause(pd, f)
    BY <1>4 DEF TryPushSimple
  <2> QED
    BY <2>1 DEF TryPushInClause, IsSeverity, Terms, Bound
<1>5. CASE f.class = "other"
  BY <1>5 DEF TryPushSimple
<1> QED
  BY <1>1, <1>2, <1>3, <1>4, <1>5, Classes

-----------------------------------------------------------------------------
(* A row that satisfies a conjunct satisfies its terms                     *)

LEMMA AddLowerKeeps ==
  ASSUME NEW pd \in Terms, NEW s \in Int, NEW row \in Row, Asks(pd, row),
         s * NanosPerSecond <= row.time_unix_nano
  PROVE  Asks(AddLowerBound(pd, s), row)
BY RowTyped, SecondsAssumption DEF AddLowerBound, Asks, Terms, Bound

LEMMA AddUpperKeeps ==
  ASSUME NEW pd \in Terms, NEW s \in Int, NEW row \in Row, Asks(pd, row),
         row.time_unix_nano <= s * NanosPerSecond
  PROVE  Asks(AddUpperBound(pd, s), row)
BY RowTyped, SecondsAssumption DEF AddUpperBound, Asks, Terms, Bound

\* A severity that is named by one of some constants is added with them.
LEMMA SeveritiesKeep ==
  ASSUME NEW pd \in Terms, NEW row \in Row, Asks(pd, row),
         NEW list, row.severity_text # Null, row.severity_text \in list
  PROVE  Asks([pd EXCEPT !.severities = @ \cup {Upper[constant] : constant \in list}], row)
<1>1. row.severity_text \in LogSeverity
  BY DEF Row
<1>2. row.severity_text \in {Upper[constant] : constant \in list}
  BY <1>1, UpperAssumption
<1> QED
  BY <1>2 DEF Asks, Terms, Bound

LEMMA CompareMeans ==
  ASSUME NEW a \in Int, NEW b \in Int, NEW op \in {"=", "<>", "<", "<=", ">", ">="},
         Compare(op, a, b)
  PROVE  /\ op = "=" => a = b
         /\ op \in {">", ">="} => b <= a
         /\ op \in {"<", "<="} => a <= b
<1>1. /\ op = "="  => a = b
      /\ op = "<"  => a < b
      /\ op = "<=" => a <= b
      /\ op = ">"  => a > b
      /\ op = ">=" => a >= b
  BY Zenon DEF Compare
<1> QED
  BY <1>1

LEMMA SimpleKeeps ==
  ASSUME NEW pd \in Terms, NEW f \in SimpleFilter, NEW row \in Row, Asks(pd, row), SimpleMatch(f, row)
  PROVE  Asks(TryPushSimple(pd, f), row)
<1> DEFINE t == row.time_unix_nano
<1>t. t \in Int
  BY RowTyped
<1>1. CASE /\ f.class = "comparison" /\ f.column = "time_unix_nano"
           /\ f.op \in {"=", "<>", "<", "<=", ">", ">="} /\ f.flipped \in BOOLEAN
           /\ f.constant # Null => f.constant \in Int
  <2> DEFINE c  == f.constant
             op == IF f.flipped THEN ReverseComparison(f.op) ELSE f.op
             lowered == AddLowerBound(pd, FloorSeconds(c))
             uppered == AddUpperBound(pd, CeilSeconds(c))
  <2>1. /\ TryPushSimple(pd, f) = TryPushComparison(pd, f)
        /\ c # Null /\ c \in Int
        /\ IF f.flipped THEN Compare(f.op, c, t) ELSE Compare(f.op, t, c)
    BY <1>1 DEF TryPushSimple, SimpleMatch
  <2>2. /\ op \in {"=", "<>", "<", "<=", ">", ">="}
        /\ op = "=" => t = c
        /\ op \in {">", ">="} => c <= t
        /\ op \in {"<", "<="} => t <= c
    <3>1. CASE f.flipped
      BY <1>1, <1>t, <2>1, <3>1, CompareMeans DEF ReverseComparison
    <3>2. CASE ~f.flipped
      BY <1>1, <1>t, <2>1, <3>2, CompareMeans
    <3> QED
      BY <3>1, <3>2
  <2>3. /\ FloorSeconds(c) \in Int /\ FloorSeconds(c) * NanosPerSecond <= c
        /\ CeilSeconds(c) \in Int /\ c <= CeilSeconds(c) * NanosPerSecond
        /\ FloorSeconds(c) * NanosPerSecond \in Int /\ CeilSeconds(c) * NanosPerSecond \in Int
    BY <2>1, FloorIsBelow, CeilIsAbove, SecondsAssumption
  <2>4. TryPushComparison(pd, f) =
          CASE op = "="           -> AddUpperBound(lowered, CeilSeconds(c))
            [] op \in {">", ">="} -> lowered
            [] op \in {"<", "<="} -> uppered
            [] OTHER              -> pd
    BY <1>1, <2>1 DEF TryPushComparison
  <2> HIDE DEF c, op, t
  <2>5. c <= t => Asks(lowered, row) /\ lowered \in Terms
    <3> SUFFICES ASSUME c <= t PROVE Asks(lowered, row) /\ lowered \in Terms
      OBVIOUS
    <3>1. FloorSeconds(c) * NanosPerSecond <= t
      BY <1>t, <2>1, <2>3
    <3> QED
      BY <2>3, <3>1, AddLowerKeeps, AddLowerTyped DEF t
  <2>6. t <= c => t <= CeilSeconds(c) * NanosPerSecond
    BY <1>t, <2>1, <2>3
  <2>7. t <= c => Asks(uppered, row)
    BY <2>3, <2>6, AddUpperKeeps DEF t
  <2>8. CASE op = "="
    <3>1. c <= t /\ t <= c
      BY <1>t, <2>1, <2>2, <2>8
    <3> HIDE DEF lowered
    <3>2. Asks(AddUpperBound(lowered, CeilSeconds(c)), row)
      BY <2>3, <2>5, <2>6, <3>1, AddUpperKeeps DEF t
    <3> QED
      BY <2>1, <2>4, <2>8, <3>2
  <2>9. CASE op \in {">", ">="}
    BY <2>1, <2>2, <2>4, <2>5, <2>9
  <2>10. CASE op \in {"<", "<="}
    BY <2>1, <2>2, <2>4, <2>7, <2>10
  <2>11. CASE op = "<>"
    BY <2>1, <2>4, <2>11
  <2> QED
    BY <2>2, <2>8, <2>9, <2>10, <2>11
<1>2. CASE /\ f.class = "comparison" /\ f.column = "severity_text"
           /\ f.op \in {"=", "<>"} /\ f.flipped \in BOOLEAN
  <2>1. /\ f.constant # Null
        /\ row.severity_text # Null
        /\ f.op = "=" => row.severity_text = f.constant
    BY <1>2 DEF SimpleMatch, Compare
  <2>2. TryPushSimple(pd, f) = IF f.op = "=" THEN AddSeverity(pd, f.constant) ELSE pd
    BY <1>2, <2>1 DEF TryPushSimple, TryPushComparison, ReverseComparison
  <2>3. CASE f.op = "=" /\ IsSeverity(f.constant)
    <3>1. Asks([pd EXCEPT !.severities = @ \cup {Upper[constant] : constant \in {f.constant}}], row)
      BY <2>1, <2>3, SeveritiesKeep
    <3>2. {Upper[constant] : constant \in {f.constant}} = {Upper[f.constant]}
      OBVIOUS
    <3> QED
      BY <2>2, <2>3, <3>1, <3>2 DEF AddSeverity
  <2>4. CASE ~(f.op = "=" /\ IsSeverity(f.constant))
    BY <2>2, <2>4 DEF AddSeverity
  <2> QED
    BY <2>3, <2>4
<1>3. CASE /\ f.class = "between"
           /\ f.lower # Null => f.lower \in Int
           /\ f.upper # Null => f.upper \in Int
  <2> DEFINE lowered == IF f.lower = Null THEN pd ELSE AddLowerBound(pd, FloorSeconds(f.lower))
  <2>1. /\ f.lower # Null => f.lower <= t
        /\ f.upper # Null => t <= f.upper
    BY <1>3, <1>t DEF SimpleMatch
  <2>2. TryPushSimple(pd, f) =
          IF f.upper = Null THEN lowered ELSE AddUpperBound(lowered, CeilSeconds(f.upper))
    BY <1>3 DEF TryPushSimple, TryPushBetween
  <2>3. lowered \in Terms /\ Asks(lowered, row)
    <3>1. CASE f.lower = Null
      BY <3>1
    <3>2. CASE f.lower # Null
      <4>1. FloorSeconds(f.lower) \in Int /\ FloorSeconds(f.lower) * NanosPerSecond <= f.lower
        BY <1>3, <3>2, FloorIsBelow
      <4>2. FloorSeconds(f.lower) * NanosPerSecond <= t
        BY <1>3, <1>t, <2>1, <3>2, <4>1, SecondsAssumption
      <4> QED
        BY <3>2, <4>1, <4>2, AddLowerKeeps, AddLowerTyped
    <3> QED
      BY <3>1, <3>2
  <2> HIDE DEF lowered
  <2>4. CASE f.upper # Null
    <3>1. CeilSeconds(f.upper) \in Int /\ f.upper <= CeilSeconds(f.upper) * NanosPerSecond
      BY <1>3, <2>4, CeilIsAbove
    <3>2. t <= CeilSeconds(f.upper) * NanosPerSecond
      BY <1>3, <1>t, <2>1, <2>4, <3>1, SecondsAssumption
    <3> QED
      BY <2>2, <2>3, <2>4, <3>1, <3>2, AddUpperKeeps
  <2> QED
    BY <2>2, <2>3, <2>4
<1>4. CASE f.class = "in"
  <2>1. TryPushSimple(pd, f) = TryPushInClause(pd, f)
    BY <1>4 DEF TryPushSimple
  <2>2. row.severity_text # Null /\ row.severity_text \in f.list
    BY <1>4 DEF SimpleMatch
  <2> QED
    BY <2>1, <2>2, SeveritiesKeep DEF TryPushInClause
<1>5. CASE f.class = "other"
  BY <1>5 DEF TryPushSimple
<1> QED
  BY <1>1, <1>2, <1>3, <1>4, <1>5, Classes

LEMMA ExpressionKeeps ==
  ASSUME NEW pd \in Terms, NEW f \in Filters
  PROVE  /\ TryPushExpression(pd, f) \in Terms
         /\ TryPushExpression(pd, f).empty_result = pd.empty_result
         /\ \A row \in Row : Asks(pd, row) /\ Match(f, row) => Asks(TryPushExpression(pd, f), row)
<1>1. CASE f \in SimpleFilter
  <2>1. f.class # "and"
    BY <1>1 DEF SimpleFilter
  <2> QED
    BY <1>1, <2>1, SimpleTyped, SimpleKeeps DEF TryPushExpression, Match
<1>2. CASE f \in Conjunction
  <2>1. f.class = "and" /\ f.left \in SimpleFilter /\ f.right \in SimpleFilter
    BY <1>2 DEF Conjunction
  <2> DEFINE first == TryPushSimple(pd, f.left)
  <2>2. first \in Terms /\ first.empty_result = pd.empty_result
    BY <2>1, SimpleTyped
  <2>3. \A row \in Row : Asks(pd, row) /\ SimpleMatch(f.left, row) => Asks(first, row)
    BY <2>1, SimpleKeeps
  <2>4. TryPushExpression(pd, f) = TryPushSimple(first, f.right)
    BY <2>1 DEF TryPushExpression
  <2> HIDE DEF first
  <2> QED
    BY <2>1, <2>2, <2>3, <2>4, SimpleTyped, SimpleKeeps DEF Match
<1> QED
  BY <1>1, <1>2, FiltersAssumption

-----------------------------------------------------------------------------
(* The invariant                                                           *)

LEMMA NothingAsked ==
  /\ NoPushdown \in Terms
  /\ ~NoPushdown.empty_result
  /\ \A row \in Row : Asks(NoPushdown, row)
BY DEF NoPushdown, NoBound, Terms, Bound, Asks

LEMMA Initially == Init => IInv
<1> SUFFICES ASSUME Init PROVE IInv
  OBVIOUS
<1>1. where = << >> /\ Len(where) = 0 /\ where \in Seq(Filters)
  BY DEF Init
<1> QED
  BY <1>1, NothingAsked, CapAssumption DEF Init, IInv

LEMMA Always == IInv /\ [Next]_vars => IInv'
<1> SUFFICES ASSUME IInv, [Next]_vars PROVE IInv'
  OBVIOUS
<1> USE DEF IInv
<1>1. CASE Plan
  <2>1. where' = << >> /\ Len(where') = 0 /\ where' \in Seq(Filters)
    BY <1>1 DEF Plan
  <2> QED
    BY <1>1, <2>1, NothingAsked, CapAssumption DEF Plan
<1>2. CASE PushFilter
  <2>1. PICK f \in Filters :
          /\ where' = Append(where, f)
          /\ pushdown' = IF max_rows > 0 THEN pushdown ELSE TryPushExpression(pushdown, f)
    BY <1>2 DEF PushFilter
  <2>2. /\ phase' = phase /\ max_rows' = max_rows /\ phase = "planning" /\ Len(where) < MaxFilters
    BY <1>2 DEF PushFilter
  <2>3. /\ where' \in Seq(Filters) /\ Len(where') = Len(where) + 1
        /\ where'[Len(where) + 1] = f
        /\ \A i \in DOMAIN where : i \in DOMAIN where' /\ where'[i] = where[i]
        /\ Len(where) + 1 \in DOMAIN where'
    BY <2>1, AppendProperties
  <2>4. Len(where') <= MaxFilters
    BY <2>2, <2>3, LenProperties, CapAssumption
  <2>5. \A row \in Row : Matches(row)' => Matches(row) /\ Match(f, row)
    BY <2>3 DEF Matches
  <2>6. CASE max_rows > 0
    BY <2>1, <2>2, <2>3, <2>4, <2>5, <2>6
  <2>7. CASE ~(max_rows > 0)
    <3>1. pushdown' = TryPushExpression(pushdown, f)
      BY <2>1, <2>7
    <3>2. /\ pushdown' \in Terms
          /\ ~pushdown'.empty_result
          /\ \A row \in Row : Asks(pushdown, row) /\ Match(f, row) => Asks(pushdown', row)
      BY <2>2, <3>1, ExpressionKeeps
    <3> QED
      BY <2>2, <2>3, <2>4, <2>5, <2>7, <3>2
  <2> QED
    BY <2>6, <2>7
<1>3. CASE StartScan
  <2>1. /\ phase' = "scanning" /\ max_rows' = max_rows /\ where' = where
        /\ pushdown' = [pushdown EXCEPT !.empty_result = max_rows = 0 /\ Contradictory(pushdown)]
        /\ phase = "planning"
    BY <1>3 DEF StartScan
  <2>2. pushdown' \in Terms
    BY <2>1 DEF Terms, Bound, Contradictory
  <2>3. /\ pushdown'.lower = pushdown.lower /\ pushdown'.upper = pushdown.upper
        /\ pushdown'.severities = pushdown.severities
        /\ pushdown'.empty_result => max_rows = 0 /\ Contradictory(pushdown)
    BY <2>1 DEF Terms
  <2>4. \A row \in Row : Matches(row)' => Asks(pushdown', row)
    BY <2>1, <2>3 DEF Matches, Asks
  <2>5. max_rows > 0 => pushdown' = NoPushdown
    <3> SUFFICES ASSUME max_rows > 0 PROVE pushdown' = NoPushdown
      OBVIOUS
    <3>1. pushdown = NoPushdown /\ ~(max_rows = 0)
      BY CapAssumption
    <3> QED
      BY <2>1, <3>1 DEF NoPushdown
  <2> QED
    BY <2>1, <2>2, <2>3, <2>4, <2>5 DEF Contradictory
<1>4. CASE UNCHANGED vars
  BY <1>4 DEF vars, Matches
<1> QED
  BY <1>1, <1>2, <1>3, <1>4 DEF Next

LEMMA Implied == IInv => TypeOK /\ NoMatchIsLost
<1> SUFFICES ASSUME IInv PROVE TypeOK /\ NoMatchIsLost
  OBVIOUS
<1>1. TypeOK
  BY DEF IInv, TypeOK, Terms, Bound
<1>2. ASSUME NEW row \in Row
      PROVE  /\ Matches(row) => Requested(row) /\ ~pushdown.empty_result
             /\ max_rows > 0 => Requested(row)
  <2>1. Asks(pushdown, row) <=> Requested(row)
    BY DEF Asks, Requested
  <2>2. ASSUME Asks(pushdown, row) PROVE ~pushdown.empty_result
    <3> SUFFICES ASSUME Contradictory(pushdown) PROVE FALSE
      BY DEF IInv
    <3>1. /\ pushdown.lower.seconds \in Int /\ pushdown.upper.seconds \in Int
          /\ pushdown.lower.known /\ pushdown.upper.known
          /\ pushdown.lower.seconds > pushdown.upper.seconds
      BY DEF IInv, Terms, Bound, Contradictory
    <3>2. /\ pushdown.lower.seconds * NanosPerSecond <= row.time_unix_nano
          /\ row.time_unix_nano <= pushdown.upper.seconds * NanosPerSecond
      BY <2>2, <3>1, RowTyped, SecondsAssumption DEF Asks
    <3>3. pushdown.lower.seconds <= pushdown.upper.seconds
      BY <3>1, <3>2, RowTyped, Crossing
    <3> QED
      BY <3>1, <3>3
  <2> QED
    BY <2>1, <2>2, NothingAsked DEF IInv
<1> QED
  BY <1>1, <1>2 DEF NoMatchIsLost

LEMMA InvariantHolds == Spec => []IInv
BY Initially, Always, PTL DEF Spec

\* The variables of the translation stay in their ranges; only names of severities are
\* ever sent (logs_table.cpp:698).
THEOREM TypeCorrect == Spec => []TypeOK
BY InvariantHolds, Implied, PTL

\* For every clause: a row that satisfies it is requested, on either side of the epoch
\* and for any number of conjuncts, and with max_rows the request does not depend on it
\* (logs_table.cpp:620 and :861).
THEOREM MatchesAreRequested == Spec => []NoMatchIsLost
BY InvariantHolds, Implied, PTL
=============================================================================
