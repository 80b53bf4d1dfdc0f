-------------------------- MODULE PagedScanProofs ---------------------------
(***************************************************************************)
(* Proofs about PagedScan, for listings, pages, vectors and caps of any    *)
(* size and any number of cursors.                                         *)
(*                                                                         *)
(* What has been fetched is an initial part of the listing without the     *)
(* resolved incidents, in order: the rows emitted and then those buffered. *)
(* While the scan goes on, it reaches exactly to the position of the       *)
(* cursor in use, because no cursor is followed that was handed out        *)
(* before.  For the same reason a call of Scan takes only so many pages.   *)
(***************************************************************************)
EXTENDS PagedScan, SequenceTheorems, TLAPS

Fetched == Range(emitted) \cup Range(buffer)

\* TypeOK, with the sequences as such.  The scans of alerts and metrics remember
\* every cursor.
Typed ==
  /\ kind \in Kinds /\ page_size \in PageSizes /\ max_rows \in RowCaps
  /\ pc \in {"idle", "fill", "ended", "failed"}
  /\ cursors \in Seq(0..Total)
  /\ page_token \in 0..Len(cursors)
  /\ seen \subseteq 1..Len(cursors)
  /\ kind \in {"alerts", "metrics"} => seen = 1..Len(cursors)
  /\ kind = "service_map" => page_token = 0
  /\ buffer \in Seq(1..Total) /\ emitted \in Seq(1..Total)
  /\ finished \in BOOLEAN /\ stale \in BOOLEAN
  /\ dropped \subseteq 1..Total

InOrder ==
  /\ Increasing(emitted) /\ Increasing(buffer)
  /\ \A e \in Range(emitted), b \in Range(buffer) : e < b

\* Fetched is closed downwards but for the resolved incidents.
NoGaps ==
  /\ \A row \in Fetched : row \notin dropped
  /\ \A row \in Fetched : \A r \in 1..row : r \in dropped \cup Fetched

\* While the scan goes on, its cursor stands at the end of what was fetched.
AtCursor ==
  ~finished => /\ 1..Position(page_token) \subseteq dropped \cup Fetched
               /\ \A row \in dropped \cup Fetched : row <= Position(page_token)

Capped == max_rows > 0 /\ Len(emitted) + Len(buffer) >= max_rows

\* A scan that has finished has everything, or as many rows as it may return.
AtEnd == finished /\ ~stale => Capped \/ 1..Total \subseteq dropped \cup Fetched

Drained == pc = "ended" => finished /\ buffer = << >>

IInv == Typed /\ InOrder /\ NoGaps /\ AtCursor /\ AtEnd /\ Drained /\ FetchIsBounded

-----------------------------------------------------------------------------
(* Numbers and sequences                                                   *)

LEMMA MinOfTwo ==
  ASSUME NEW a \in Int, NEW b \in Int
  PROVE  Min({a, b}) \in {a, b} /\ Min({a, b}) <= a /\ Min({a, b}) <= b
  BY DEF Min

LEMMA MinOfThree ==
  ASSUME NEW a \in Int, NEW b \in Int, NEW c \in Int
  PROVE  Min({a, b, c}) \in {a, b, c} /\ Min({a, b, c}) <= a /\ Min({a, b, c}) <= b /\ Min({a, b, c}) <= c
<1>1. \E m \in {a, b, c} : \A y \in {a, b, c} : m <= y  OBVIOUS
<1> QED  BY <1>1 DEF Min

LEMMA MaxOfTwo ==
  ASSUME NEW a \in Int, NEW b \in Int
  PROVE  Max({a, b}) \in {a, b} /\ Max({a, b}) >= a /\ Max({a, b}) >= b
  BY DEF Max

\* What a concatenation and the two parts of a split hold.
LEMMA RangeOfConcat ==
  ASSUME NEW S, NEW s \in Seq(S), NEW t \in Seq(S)
  PROVE  Range(s \o t) = Range(s) \cup Range(t)
<1>1. Range(s \o t) \subseteq Range(s) \cup Range(t)
  <2> SUFFICES ASSUME NEW i \in 1..Len(s) + Len(t)  PROVE (s \o t)[i] \in Range(s) \cup Range(t)
    BY DEF Range
  <2>1. CASE i <= Len(s)  BY <2>1 DEF Range
  <2>2. CASE i > Len(s)
    <3>1. i - Len(s) \in DOMAIN t /\ (s \o t)[i] = t[i - Len(s)]  BY <2>2
    <3> QED  BY <3>1 DEF Range
  <2> QED  BY <2>1, <2>2
<1>2. ASSUME NEW i \in DOMAIN s  PROVE s[i] \in Range(s \o t)
  <2>1. i \in DOMAIN (s \o t) /\ (s \o t)[i] = s[i]  OBVIOUS
  <2> QED  BY <2>1 DEF Range
<1>3. ASSUME NEW i \in DOMAIN t  PROVE t[i] \in Range(s \o t)
  <2>1. Len(s) + i \in DOMAIN (s \o t) /\ (s \o t)[Len(s) + i] = t[i]  OBVIOUS
  <2> QED  BY <2>1 DEF Range
<1> QED  BY <1>1, <1>2, <1>3 DEF Range

LEMMA SplitSequence ==
  ASSUME NEW S, NEW s \in Seq(S), NEW c \in 0..Len(s), Increasing(s), S \subseteq Int
  PROVE  LET head == SubSeq(s, 1, c)
             tail == SubSeq(s, c + 1, Len(s))
         IN  /\ head \in Seq(S) /\ tail \in Seq(S)
             /\ Len(head) = c /\ Len(tail) = Len(s) - c
             /\ Range(head) \cup Range(tail) = Range(s)
             /\ Increasing(head) /\ Increasing(tail)
             /\ \A x \in Range(head), y \in Range(tail) : x < y
<1> DEFINE head == SubSeq(s, 1, c)
           tail == SubSeq(s, c + 1, Len(s))
<1>1. /\ head \in Seq(S) /\ Len(head) = c /\ DOMAIN head = 1..c
      /\ \A i \in 1..c : i \in 1..Len(s) /\ head[i] = s[i]
  OBVIOUS
<1>2. /\ tail \in Seq(S) /\ Len(tail) = Len(s) - c /\ DOMAIN tail = 1..Len(s) - c
      /\ \A i \in 1..Len(s) - c : c + i \in 1..Len(s) /\ tail[i] = s[c + i]
  OBVIOUS
<1>0. DOMAIN s = 1..Len(s) /\ c \in Nat /\ Len(s) \in Nat  OBVIOUS
<1> HIDE DEF head, tail
<1>3. Range(head) \cup Range(tail) = Range(s)
  <2>1. ASSUME NEW i \in 1..Len(s)  PROVE s[i] \in Range(head) \cup Range(tail)
    <3>1. CASE i <= c  BY <1>1, <3>1 DEF Range
    <3>2. CASE i > c
      <4>1. i - c \in 1..Len(s) - c /\ s[i] = tail[i - c]  BY <1>2, <3>2
      <4> QED  BY <1>2, <4>1 DEF Range
    <3> QED  BY <3>1, <3>2
  <2>2. Range(head) \subseteq Range(s)  BY <1>0, <1>1 DEF Range
  <2>3. Range(tail) \subseteq Range(s)  BY <1>0, <1>2 DEF Range
  <2> QED  BY <1>0, <2>1, <2>2, <2>3 DEF Range
<1>4. Increasing(head)
  <2> SUFFICES ASSUME NEW i \in 1..c, NEW j \in 1..c, i < j  PROVE head[i] < head[j]
    BY <1>1 DEF Increasing
  <2> QED  BY <1>0, <1>1 DEF Increasing
<1>5. Increasing(tail)
  <2> SUFFICES ASSUME NEW i \in 1..Len(s) - c, NEW j \in 1..Len(s) - c, i < j  PROVE tail[i] < tail[j]
    BY <1>2 DEF Increasing
  <2>1. c + i < c + j  BY <1>0
  <2> QED  BY <1>0, <1>2, <2>1 DEF Increasing
<1>6. \A x \in Range(head), y \in Range(tail) : x < y
  <2> SUFFICES ASSUME NEW i \in 1..c, NEW j \in 1..Len(s) - c  PROVE head[i] < tail[j]
    BY <1>1, <1>2 DEF Range
  <2>1. i < c + j  BY <1>0
  <2> QED  BY <1>0, <1>1, <1>2, <2>1 DEF Increasing
<1> QED  BY <1>1, <1>2, <1>3, <1>4, <1>5, <1>6 DEF head, tail

LEMMA IncreasingConcat ==
  ASSUME NEW S, S \subseteq Int, NEW s \in Seq(S), NEW t \in Seq(S), Increasing(s), Increasing(t),
         \A x \in Range(s), y \in Range(t) : x < y
  PROVE  Increasing(s \o t)
<1> SUFFICES ASSUME NEW i \in 1..Len(s) + Len(t), NEW j \in 1..Len(s) + Len(t), i < j
             PROVE  (s \o t)[i] < (s \o t)[j]
  BY DEF Increasing
<1>1. CASE j <= Len(s)  BY <1>1 DEF Increasing
<1>2. CASE i > Len(s)
  <2>1. /\ i - Len(s) \in DOMAIN t /\ (s \o t)[i] = t[i - Len(s)]
        /\ j - Len(s) \in DOMAIN t /\ (s \o t)[j] = t[j - Len(s)]
    BY <1>2
  <2> QED  BY <2>1 DEF Increasing
<1>3. CASE i <= Len(s) /\ j > Len(s)
  <2>1. i \in DOMAIN s /\ (s \o t)[i] = s[i]  BY <1>3
  <2>2. j - Len(s) \in DOMAIN t /\ (s \o t)[j] = t[j - Len(s)]  BY <1>3
  <2> QED  BY <2>1, <2>2 DEF Range
<1> QED  BY <1>1, <1>2, <1>3

LEMMA RangeTyped ==
  ASSUME NEW S, NEW s \in Seq(S)
  PROVE  Range(s) \subseteq S
<1>1. \A i \in DOMAIN s : s[i] \in S  BY LenProperties
<1> QED  BY <1>1 DEF Range

LEMMA RangeOfEmpty == Range(<< >>) = {} /\ Increasing(<< >>)
  BY DEF Range, Increasing

-----------------------------------------------------------------------------
(* The size of a page and of a vector                                      *)

\* A request is for no more than a page and, where max_rows is counted, for no
\* more rows than are still wanted.
LEMMA RequestBounds ==
  ASSUME Typed, NEW accounted \in Nat, RequestSize(accounted) > 0
  PROVE  /\ RequestSize(accounted) \in Nat /\ RequestSize(accounted) <= page_size
         /\ max_rows > 0 /\ kind # "metrics" => accounted + RequestSize(accounted) <= max_rows
<1>1. page_size \in Nat /\ max_rows \in Nat  BY SizesAssumption DEF Typed
<1>2. CASE max_rows = 0 \/ kind = "metrics"
  BY <1>1, <1>2 DEF RequestSize
<1>3. CASE ~(max_rows = 0 \/ kind = "metrics")
  <2>1. accounted < max_rows /\ RequestSize(accounted) = Min({page_size, max_rows - accounted})
    BY <1>1, <1>3 DEF RequestSize
  <2> DEFINE wanted == max_rows - accounted
  <2>2. wanted \in Int /\ page_size \in Int /\ wanted > 0  BY <1>1, <2>1
  <2>3. RequestSize(accounted) = Min({page_size, wanted})  BY <2>1
  <2> HIDE DEF wanted
  <2>4. /\ RequestSize(accounted) \in {page_size, wanted}
        /\ RequestSize(accounted) <= page_size /\ RequestSize(accounted) <= wanted
    BY <2>2, <2>3, MinOfTwo
  <2> QED  BY <1>1, <2>2, <2>4 DEF wanted
<1> QED  BY <1>2, <1>3

\* Nothing is requested only when max_rows are accounted for.
LEMMA RequestOfNone ==
  ASSUME Typed, NEW accounted \in Nat
  PROVE  /\ RequestSize(accounted) \in Int
         /\ RequestSize(accounted) <= 0 => max_rows > 0 /\ accounted >= max_rows
<1>1. page_size \in Nat \ {0} /\ max_rows \in Nat  BY SizesAssumption DEF Typed
<1>2. CASE max_rows = 0 \/ kind = "metrics"  BY <1>1, <1>2 DEF RequestSize
<1>3. CASE ~(max_rows = 0 \/ kind = "metrics") /\ accounted >= max_rows  BY <1>1, <1>3 DEF RequestSize
<1>4. CASE ~(max_rows = 0 \/ kind = "metrics") /\ ~(accounted >= max_rows)
  <2> DEFINE wanted == max_rows - accounted
  <2>1. wanted \in Int /\ page_size \in Int /\ wanted > 0  BY <1>1, <1>4
  <2>2. RequestSize(accounted) = Min({page_size, wanted})  BY <1>4 DEF RequestSize
  <2> HIDE DEF wanted
  <2>3. RequestSize(accounted) \in {page_size, wanted}  BY <2>1, <2>2, MinOfTwo
  <2> QED  BY <1>1, <2>1, <2>3
<1> QED  BY <1>2, <1>3, <1>4

\* A vector takes rows from the buffer and stops at max_rows; it is empty only if
\* nothing is buffered or nothing more is wanted.
LEMMA EmitBounds ==
  ASSUME Typed
  PROVE  /\ EmitCount \in 0..Len(buffer)
         /\ max_rows > 0 /\ Len(emitted) <= max_rows => Len(emitted) + EmitCount <= max_rows
         /\ EmitCount = 0 => buffer = << >> \/ MaxRowsReached(Len(emitted))
<1> DEFINE left == Max({0, max_rows - Len(emitted)})
<1>1. /\ max_rows \in Nat /\ VectorSize \in Nat \ {0}
      /\ Len(buffer) \in Nat /\ Len(emitted) \in Nat /\ (Len(buffer) = 0 => buffer = << >>)
  BY SizesAssumption DEF Typed
<1>2. left \in Nat /\ left >= max_rows - Len(emitted)
      /\ (max_rows >= Len(emitted) => left = max_rows - Len(emitted))
      /\ (left = 0 => Len(emitted) >= max_rows)
  <2>1. max_rows - Len(emitted) \in Int /\ 0 \in Int  BY <1>1
  <2>2. left \in {0, max_rows - Len(emitted)} /\ left >= 0 /\ left >= max_rows - Len(emitted)
    BY <2>1, MaxOfTwo
  <2> QED  BY <1>1, <2>1, <2>2
<1>3. CASE max_rows > 0
  <2>1. EmitCount = Min({Len(buffer), VectorSize, left})
    <3>1. {Len(buffer), VectorSize} \cup {left} = {Len(buffer), VectorSize, left}  OBVIOUS
    <3> QED  BY <1>3, <3>1 DEF EmitCount
  <2> HIDE DEF left
  <2>2. /\ EmitCount \in {Len(buffer), VectorSize, left}
        /\ EmitCount <= Len(buffer) /\ EmitCount <= VectorSize /\ EmitCount <= left
    <3>1. Len(buffer) \in Int /\ VectorSize \in Int /\ left \in Int  BY <1>1, <1>2
    <3> QED  BY <2>1, <3>1, MinOfThree
  <2> QED  BY <1>1, <1>2, <1>3, <2>2 DEF MaxRowsReached
<1>4. CASE ~(max_rows > 0)
  <2>1. EmitCount = Min({Len(buffer), VectorSize})
    <3>1. {Len(buffer), VectorSize} \cup {} = {Len(buffer), VectorSize}  OBVIOUS
    <3> QED  BY <1>4, <3>1 DEF EmitCount
  <2> QED  BY <1>1, <1>4, <2>1, MinOfTwo
<1> QED  BY <1>3, <1>4

-----------------------------------------------------------------------------
(* The invariant                                                           *)

LEMMA InitIInv == Init => IInv
<1> SUFFICES ASSUME Init PROVE IInv  OBVIOUS
<1>1. Typed
  <2>1. cursors = << >> /\ Len(cursors) = 0 /\ 1..0 = {} /\ Total \in Nat
    BY SizesAssumption DEF Init
  <2>2. page_token \in 0..Len(cursors) /\ seen = 1..Len(cursors)  BY <2>1 DEF Init
  <2>3. /\ cursors \in Seq(0..Total) /\ buffer \in Seq(1..Total) /\ emitted \in Seq(1..Total)
    BY DEF Init
  <2> QED  BY <2>2, <2>3 DEF Init, Typed
<1>2. Range(emitted) = {} /\ Range(buffer) = {} /\ Len(emitted) = 0 /\ Len(buffer) = 0
      /\ Increasing(emitted) /\ Increasing(buffer)
  BY RangeOfEmpty DEF Init
<1>3. InOrder /\ NoGaps /\ AtEnd /\ Drained
  BY <1>2 DEF Init, InOrder, NoGaps, AtEnd, Drained, Fetched
<1>4. AtCursor  BY <1>2 DEF Init, AtCursor, Fetched, Position
<1>5. FetchIsBounded
  <2>1. page_size \in Nat /\ max_rows \in Nat  BY <1>1, SizesAssumption DEF Typed
  <2> QED  BY <1>2, <2>1 DEF FetchIsBounded
<1> QED  BY <1>1, <1>3, <1>4, <1>5 DEF IInv

\* A cursor that is followed is a new one.
LEMMA FollowedIsNew ==
  ASSUME Typed, kind \in Paged, NEW next \in StaleCursors
  PROVE  ~Advances(next)
  BY DEF Typed, StaleCursors, Advances, Kinds, Paged

\* What the arrival of a page changes, apart from the cursor it carries.
LEMMA PageArrives ==
  ASSUME IInv, pc = "fill", NeedsPage, kind \in Paged,
         NEW p \in Int, Position(page_token) \in Int, Position(page_token) <= p, p <= Total,
         p <= Position(page_token) + RequestSize(Len(emitted) + Len(buffer)),
         RequestSize(Len(emitted) + Len(buffer)) > 0,
         NEW n \in 0..p - Position(page_token),
         NEW rows \in [1..n -> Position(page_token) + 1 .. p],
         Increasing(rows),
         0 <= Position(page_token),
         buffer' = buffer \o rows,
         dropped' = dropped \cup ((Position(page_token) + 1 .. p) \ Range(rows)),
         UNCHANGED <<config, pc, emitted>>
  PROVE  /\ buffer' \in Seq(1..Total) /\ dropped' \subseteq 1..Total
         /\ InOrder' /\ NoGaps' /\ FetchIsBounded'
         /\ 1..p \subseteq dropped' \cup Fetched'
         /\ \A row \in dropped' \cup Fetched' : row <= p
<1> DEFINE at == Position(page_token)
           size == RequestSize(Len(emitted) + Len(buffer))
<1>1. Typed /\ InOrder /\ NoGaps /\ AtCursor /\ FetchIsBounded /\ buffer = << >> /\ ~finished
  BY DEF IInv, NeedsPage
<1>2. at + 1 .. p \subseteq 1..Total /\ Total \in Nat  BY SizesAssumption
<1>3. rows \in Seq(1..Total) /\ Len(rows) = n
  <2>1. DOMAIN rows = 1..n /\ n \in Nat /\ \A i \in 1..n : rows[i] \in 1..Total  BY <1>2
  <2>2. rows = [i \in 1..n |-> rows[i]]  OBVIOUS
  <2> QED  BY <2>1, <2>2, IsASeq
<1>4. buffer' = rows  BY <1>1, <1>3
<1>5. Range(rows) \subseteq at + 1 .. p  BY DEF Range
<1>6. Fetched = Range(emitted) /\ Fetched' = Range(emitted) \cup Range(rows)
  BY <1>1, <1>4, RangeOfEmpty DEF Fetched, config
<1>7. /\ 1..at \subseteq dropped \cup Fetched
      /\ \A row \in dropped \cup Fetched : row <= at
  BY <1>1 DEF AtCursor
<1>8. /\ \A row \in dropped \cup Fetched : row \in Int
      /\ emitted \in Seq(1..Total) /\ dropped \subseteq 1..Total
  <2>1. emitted \in Seq(1..Total) /\ dropped \subseteq 1..Total  BY <1>1 DEF Typed
  <2>2. Range(emitted) \subseteq 1..Total  BY <2>1, RangeTyped
  <2> QED  BY <1>6, <2>1, <2>2
<1> HIDE DEF at
<1>9. buffer' \in Seq(1..Total) /\ dropped' \subseteq 1..Total
  BY <1>2, <1>3, <1>4, <1>8 DEF at
<1>10. InOrder'
  <2>1. ASSUME NEW e \in Range(emitted), NEW b \in Range(rows)  PROVE e < b
    <3>1. e \in Int /\ e <= at  BY <1>6, <1>7, <1>8
    <3>2. b \in Int /\ b >= at + 1 /\ at \in Int  BY <1>5 DEF at
    <3> QED  BY <3>1, <3>2
  <2> QED  BY <1>1, <1>4, <2>1 DEF InOrder, config
<1>11. \A r \in 1..p : r \in dropped' \cup Fetched'
  <2> SUFFICES ASSUME NEW r \in 1..p PROVE r \in dropped' \cup Fetched'  OBVIOUS
  <2>1. CASE r <= at  BY <1>6, <1>7, <2>1 DEF at
  <2>2. CASE r > at  BY <1>6, <2>2 DEF at
  <2> QED  BY <2>1, <2>2 DEF at
<1>12. \A row \in dropped' \cup Fetched' : row <= p
  BY <1>5, <1>6, <1>7, <1>8 DEF at
<1>13. NoGaps'
  <2>1. ASSUME NEW row \in Fetched'  PROVE row \notin dropped'
    <3>1. CASE row \in Fetched
      <4>1. row <= at /\ row \notin dropped /\ row \in Int  BY <1>1, <1>7, <1>8, <3>1 DEF NoGaps
      <4> QED  BY <4>1 DEF at
    <3>2. CASE row \in Range(rows)
      <4>1. row > at /\ row \in Int /\ at \in Int  BY <1>5, <3>2 DEF at
      <4>2. row \notin dropped  BY <1>7, <4>1
      <4> QED  BY <3>2, <4>2
    <3> QED  BY <1>6, <2>1, <3>1, <3>2
  <2>2. ASSUME NEW row \in Fetched', NEW r \in 1..row  PROVE r \in dropped' \cup Fetched'
    <3>1. row <= p  BY <1>12
    <3>2. CASE row \in Range(emitted)
      <4>1. row \in Int  BY <1>6, <1>8, <3>2
      <4> QED  BY <1>11, <3>1, <4>1
    <3>3. CASE row \in Range(rows)  BY <1>5, <1>11, <3>1, <3>3 DEF at
    <3> QED  BY <1>6, <3>2, <3>3
  <2> QED  BY <2>1, <2>2 DEF NoGaps
<1>14. FetchIsBounded'
  <2>1. Len(buffer) = 0 /\ Len(emitted) \in Nat /\ Len(buffer') = n
    BY <1>1, <1>3, <1>4, <1>8
  <2>2. /\ size \in Nat /\ size <= page_size
        /\ max_rows > 0 /\ kind # "metrics" => Len(emitted) + Len(buffer) + size <= max_rows
    BY <1>1, <2>1, RequestBounds
  <2>3. n <= size /\ page_size \in Nat /\ max_rows \in Nat
    BY <1>1, <2>2, SizesAssumption DEF Typed, at
  <2> HIDE DEF size
  <2> QED  BY <1>1, <2>1, <2>2, <2>3 DEF FetchIsBounded, config
<1> QED  BY <1>9, <1>10, <1>11, <1>12, <1>13, <1>14 DEF at

\* FetchNextPage.
LEMMA StepFetchNextPage == IInv /\ FetchNextPage => IInv'
<1> SUFFICES ASSUME IInv, FetchNextPage PROVE IInv'  OBVIOUS
<1> DEFINE size == RequestSize(Len(emitted) + Len(buffer))
<1>1. /\ Typed /\ AtCursor /\ FetchIsBounded /\ ~finished /\ buffer = << >>
      /\ pc = "fill" /\ kind \in Paged /\ UNCHANGED <<config, pc, emitted>>
  BY DEF IInv, FetchNextPage, NeedsPage
<1>2. UNCHANGED <<kind, page_size, max_rows, pc, emitted>> /\ pc' # "ended"
  BY <1>1 DEF config
<1>3. Total \in Nat /\ Len(emitted) \in Nat /\ Len(buffer) = 0 /\ Len(cursors) \in Nat
  BY <1>1, SizesAssumption DEF Typed
<1>4. CASE size <= 0
  <2>1. finished' = TRUE /\ UNCHANGED <<page_token, seen, buffer, cursors, dropped, stale>>
    BY <1>4 DEF FetchNextPage, service
  <2>2. Capped
    <3>1. Len(emitted) + Len(buffer) \in Nat  BY <1>3
    <3> QED  BY <1>1, <1>4, <3>1, RequestOfNone DEF Capped
  <2>3. Typed'  BY <1>1, <1>2, <2>1 DEF Typed
  <2> QED  BY <1>2, <2>1, <2>2, <2>3
           DEF IInv, InOrder, NoGaps, AtCursor, AtEnd, Capped, Drained, FetchIsBounded, Fetched
<1>5. CASE ~(size <= 0)
  <2> DEFINE at == Position(page_token)
  <2>1. PICK p \in PageEnds(page_token, size) :
          \/ /\ cursors' = Append(cursors, p)
             /\ Receive(p, Len(cursors) + 1)
             /\ UNCHANGED stale
          \/ /\ p = Total
             /\ Receive(p, 0)
             /\ UNCHANGED <<cursors, stale>>
          \/ /\ \E next \in StaleCursors : Receive(p, next)
             /\ stale' = TRUE
             /\ UNCHANGED cursors
    BY <1>5 DEF FetchNextPage
  <2>2. at \in 0..Total
    BY <1>1, <1>3 DEF Typed, Position
  <2>3. p \in at..Total /\ p <= at + size  BY <2>1 DEF PageEnds
  <2>4. PICK next \in Int : /\ Receive(p, next)
                           /\ \/ next = Len(cursors) + 1 /\ cursors' = Append(cursors, p) /\ stale' = stale
                              \/ next = 0 /\ p = Total /\ UNCHANGED <<cursors, stale>>
                              \/ next \in StaleCursors /\ stale' = TRUE /\ cursors' = cursors
    <3>1. StaleCursors \subseteq Int  BY <1>1 DEF Typed, StaleCursors
    <3> QED  BY <1>3, <2>1, <3>1
  <2>5. PICK n \in 0..p - at : \E rows \in [1..n -> at + 1 .. p] :
          /\ Increasing(rows)
          /\ buffer' = buffer \o rows
          /\ dropped' = dropped \cup ((at + 1 .. p) \ Range(rows))
    BY <2>4 DEF Receive
  <2>6. PICK rows \in [1..n -> at + 1 .. p] :
          /\ Increasing(rows)
          /\ buffer' = buffer \o rows
          /\ dropped' = dropped \cup ((at + 1 .. p) \ Range(rows))
    BY <2>5
  <2>7. seen' = Remembered(next) /\ Follow(rows, next)  BY <2>4 DEF Receive, Follow
  <2>8. size > 0
    <3>1. Len(emitted) + Len(buffer) \in Nat  BY <1>3
    <3>2. size \in Int  BY <1>1, <3>1, RequestOfNone
    <3> HIDE DEF size
    <3> QED  BY <1>5, <3>2
  <2>9. /\ buffer' \in Seq(1..Total) /\ dropped' \subseteq 1..Total
        /\ InOrder' /\ NoGaps' /\ FetchIsBounded'
        /\ 1..p \subseteq dropped' \cup Fetched'
        /\ \A row \in dropped' \cup Fetched' : row <= p
    <3>1. /\ p \in Int /\ at \in Int /\ at <= p /\ p <= Total /\ 0 <= at
      BY <2>2, <2>3
    <3> QED  BY <1>1, <2>3, <2>6, <2>8, <3>1, PageArrives DEF NeedsPage
  <2>10. next = Len(cursors) + 1 => Advances(next)
    <3>1. page_token \in 0..Len(cursors) /\ seen \subseteq 1..Len(cursors)  BY <1>1 DEF Typed
    <3> QED  BY <1>3, <3>1 DEF Advances
  <2>11. Advances(next) => next = Len(cursors) + 1
    BY <1>1, <2>4, FollowedIsNew DEF Advances
  <2>12. /\ cursors' \in Seq(0..Total) /\ Len(cursors') \in Nat
         /\ next = Len(cursors) + 1 => Len(cursors') = Len(cursors) + 1 /\ cursors'[next] = p
         /\ next # Len(cursors) + 1 => cursors' = cursors
    <3>1. p \in 0..Total /\ cursors \in Seq(0..Total)  BY <1>1, <1>3, <2>2, <2>3 DEF Typed
    <3>2. CASE next = Len(cursors) + 1
      <4>1. cursors' = Append(cursors, p)
        BY <1>1, <1>3, <2>4, <3>2 DEF Typed, StaleCursors
      <4> QED  BY <3>1, <3>2, <4>1
    <3>3. CASE next # Len(cursors) + 1  BY <1>3, <2>4, <3>1, <3>3
    <3> QED  BY <3>2, <3>3
  <2>13. Typed'
    <3>1. page_token' \in 0..Len(cursors')
      BY <1>1, <1>3, <2>7, <2>11, <2>12 DEF Follow, Typed
    <3>2. seen' \subseteq 1..Len(cursors') /\ (kind' \in {"alerts", "metrics"} => seen' = 1..Len(cursors'))
      <4>1. seen' \in {seen, seen \cup {next}} /\ (kind \in {"alerts", "metrics"} /\ next \notin {0, page_token}
                                                  => seen' = seen \cup {next})
        BY <2>7 DEF Remembered
      <4>2. seen \subseteq 1..Len(cursors) /\ (kind \in {"alerts", "metrics"} => seen = 1..Len(cursors))
            /\ page_token \in 0..Len(cursors)
        BY <1>1 DEF Typed
      <4>3. CASE next = Len(cursors) + 1
        <5>1. next \notin {0, page_token} /\ 1..Len(cursors') = (1..Len(cursors)) \cup {next}
          BY <1>3, <2>12, <4>2, <4>3
        <5> QED  BY <1>2, <4>1, <4>2, <5>1
      <4>4. CASE next # Len(cursors) + 1
        <5>1. seen' = seen \/ next \in 1..Len(cursors)
          BY <1>1, <1>3, <2>4, <2>7, <4>2, <4>4 DEF Remembered, StaleCursors, Typed
        <5> QED  BY <1>2, <2>12, <4>1, <4>2, <4>4, <5>1
      <4> QED  BY <4>3, <4>4
    <3>3. finished' \in BOOLEAN /\ stale' \in BOOLEAN
      BY <1>1, <2>4, <2>7 DEF Typed, Follow
    <3>4. kind # "service_map"  BY <1>1 DEF Paged
    <3> QED  BY <1>1, <1>2, <2>9, <2>12, <3>1, <3>2, <3>3, <3>4 DEF Typed
  <2>14. AtCursor'
    <3> SUFFICES ASSUME ~finished' PROVE Position(page_token)' = p
      BY <2>9 DEF AtCursor
    <3>1. Advances(next) /\ page_token' = next  BY <2>7 DEF Follow
    <3> QED  BY <1>3, <2>11, <2>12, <3>1 DEF Position
  <2>15. AtEnd'
    <3> SUFFICES ASSUME finished', ~stale' PROVE p = Total
      BY <2>9 DEF AtEnd
    <3>1. ~Advances(next)  BY <1>1, <2>7 DEF Follow
    <3> QED  BY <2>4, <2>10, <3>1
  <2>16. Drained'  BY <1>2 DEF Drained
  <2> QED  BY <2>9, <2>13, <2>14, <2>15, <2>16 DEF IInv
<1> QED  BY <1>4, <1>5

\* LoadDependencies.
LEMMA StepLoadDependencies == IInv /\ LoadDependencies => IInv'
<1> SUFFICES ASSUME IInv, LoadDependencies PROVE IInv'  OBVIOUS
<1> DEFINE count == IF max_rows > 0 THEN Min({Total, max_rows}) ELSE Total
<1>1. /\ Typed /\ AtCursor /\ FetchIsBounded /\ ~finished /\ buffer = << >>
      /\ pc = "fill" /\ kind = "service_map"
      /\ UNCHANGED <<kind, page_size, max_rows, pc, page_token, seen, emitted, cursors, dropped, stale>>
      /\ finished' = TRUE /\ buffer' = [i \in 1..count |-> i]
  BY DEF IInv, LoadDependencies, NeedsPage, config, service
<1>2. /\ Total \in Nat /\ max_rows \in Nat /\ page_token = 0 /\ Len(emitted) \in Nat
      /\ emitted \in Seq(1..Total) /\ dropped \subseteq 1..Total
  BY <1>1, SizesAssumption DEF Typed
<1>3. /\ count \in 0..Total /\ (max_rows > 0 => count <= max_rows)
      /\ count = Total \/ (max_rows > 0 /\ count = max_rows)
  <2>1. Total \in Int /\ max_rows \in Int  BY <1>2
  <2>2. Min({Total, max_rows}) \in {Total, max_rows} /\ Min({Total, max_rows}) <= Total
        /\ Min({Total, max_rows}) <= max_rows
    BY <2>1, MinOfTwo
  <2> QED  BY <1>2, <2>2
<1> HIDE DEF count
<1>4. /\ dropped = {} /\ Range(emitted) = {} /\ emitted = << >>
  <2>1. \A row \in dropped \cup Fetched : row <= 0  BY <1>1, <1>2 DEF AtCursor, Position
  <2>2. Range(emitted) \subseteq 1..Total  BY <1>2, RangeTyped
  <2>3. dropped = {} /\ Range(emitted) = {}  BY <1>2, <2>1, <2>2 DEF Fetched
  <2>4. Len(emitted) = 0
    <3>1. ASSUME 1 <= Len(emitted) PROVE FALSE
      <4>1. 1 \in DOMAIN emitted  BY <1>2, <3>1
      <4> QED  BY <2>3, <4>1 DEF Range
    <3> QED  BY <1>2, <3>1
  <2> QED  BY <1>2, <2>3, <2>4
<1>5. /\ buffer' \in Seq(1..Total) /\ Len(buffer') = count /\ DOMAIN buffer' = 1..count
      /\ \A i \in 1..count : buffer'[i] = i
  BY <1>1, <1>2, <1>3
<1>6. Range(buffer') = 1..count /\ Increasing(buffer')  BY <1>3, <1>5 DEF Range, Increasing
<1>7. Fetched' = 1..count  BY <1>1, <1>4, <1>6 DEF Fetched
<1>8. Typed'  BY <1>1, <1>5 DEF Typed
<1>9. InOrder'  BY <1>1, <1>4, <1>6, RangeOfEmpty DEF InOrder
<1>10. NoGaps'  BY <1>1, <1>3, <1>4, <1>7 DEF NoGaps
<1>11. AtCursor' /\ Drained'  BY <1>1 DEF AtCursor, Drained
<1>12. AtEnd'
  <2>1. Len(emitted') = 0  BY <1>1, <1>4
  <2> QED  BY <1>1, <1>2, <1>3, <1>5, <1>7, <2>1 DEF AtEnd, Capped
<1>13. FetchIsBounded'
  <2>1. Len(emitted') = 0  BY <1>1, <1>4
  <2> QED  BY <1>1, <1>2, <1>3, <1>5, <2>1 DEF FetchIsBounded, Paged
<1> QED  BY <1>8, <1>9, <1>10, <1>11, <1>12, <1>13 DEF IInv

\* What moving the first part of the buffer to the query changes; the second part
\* is kept, or dropped because the scan ends.
LEMMA RowsMove ==
  ASSUME IInv, NEW head \in Seq(1..Total), NEW tail \in Seq(1..Total),
         Range(head) \cup Range(tail) = Range(buffer),
         Increasing(head), Increasing(tail),
         \A x \in Range(head), y \in Range(tail) : x < y,
         emitted' = emitted \o head,
         \/ buffer' = tail /\ finished' = finished
         \/ buffer' = << >> /\ finished',
         UNCHANGED <<page_token, cursors, dropped>>
  PROVE  /\ emitted' \in Seq(1..Total) /\ buffer' \in Seq(1..Total)
         /\ InOrder' /\ NoGaps' /\ AtCursor'
<1>1. /\ emitted \in Seq(1..Total) /\ buffer \in Seq(1..Total) /\ InOrder /\ NoGaps /\ AtCursor
  BY DEF IInv, Typed
<1>2. emitted' \in Seq(1..Total) /\ buffer' \in Seq(1..Total)
  <2>1. emitted \o head \in Seq(1..Total)  BY <1>1
  <2>2. << >> \in Seq(1..Total)  OBVIOUS
  <2> QED  BY <2>1, <2>2
<1>3. Range(emitted') = Range(emitted) \cup Range(head)  BY <1>1, RangeOfConcat
<1>4. /\ Range(emitted) \subseteq 1..Total /\ Range(head) \subseteq 1..Total
      /\ Range(tail) \subseteq 1..Total
  BY <1>1, RangeTyped
<1>5. \A e \in Range(emitted'), t \in Range(tail) : e < t
  BY <1>1, <1>3 DEF InOrder
<1>6. Increasing(emitted')
  <2>1. \A e \in Range(emitted), h \in Range(head) : e < h  BY <1>1 DEF InOrder
  <2>2. 1..Total \subseteq Int  OBVIOUS
  <2> QED  BY <1>1, <2>1, <2>2, IncreasingConcat DEF InOrder
<1>7. Range(buffer') \subseteq Range(tail) /\ Increasing(buffer')
  BY RangeOfEmpty
<1>8. InOrder'  BY <1>5, <1>6, <1>7 DEF InOrder
<1>9. Fetched = Range(emitted') \cup Range(tail)  BY <1>3 DEF Fetched
<1>10. NoGaps'
  <2>1. ASSUME NEW row \in Fetched'  PROVE row \in Fetched
    BY <1>7, <1>9, <2>1 DEF Fetched
  <2>2. ASSUME NEW row \in Fetched', NEW r \in 1..row, r \notin dropped  PROVE r \in Fetched'
    <3>1. r \in Range(emitted') \cup Range(tail)  BY <1>1, <1>9, <2>1, <2>2 DEF NoGaps
    <3>2. CASE buffer' = tail  BY <3>1, <3>2 DEF Fetched
    <3>3. CASE buffer' = << >>
      <4>1. row \in Range(emitted')  BY <3>3, RangeOfEmpty DEF Fetched
      <4>2. row \in Int /\ ~(row < r)  BY <1>3, <1>4, <4>1
      <4>3. r \notin Range(tail)  BY <1>5, <4>1, <4>2
      <4> QED  BY <3>1, <4>3 DEF Fetched
    <3> QED  BY <3>2, <3>3
  <2> QED  BY <1>1, <2>1, <2>2 DEF NoGaps
<1>11. AtCursor'
  <2> SUFFICES ASSUME ~finished'  PROVE AtCursor'  BY DEF AtCursor
  <2>1. ~finished /\ buffer' = tail  OBVIOUS
  <2>2. Fetched' = Fetched  BY <1>9, <2>1 DEF Fetched
  <2> QED  BY <1>1, <2>1, <2>2 DEF AtCursor, Position
<1> QED  BY <1>2, <1>8, <1>10, <1>11

\* Scan.
LEMMA StepScan == IInv /\ Scan => IInv'
<1> SUFFICES ASSUME IInv, Scan PROVE IInv'  OBVIOUS
<1>1. /\ Typed /\ InOrder /\ NoGaps /\ AtCursor /\ AtEnd /\ FetchIsBounded
      /\ pc = "idle" /\ pc' = "fill"
      /\ UNCHANGED <<kind, page_size, max_rows, page_token, seen, emitted, cursors, dropped, stale>>
  BY DEF IInv, Scan, config, service
<1>2. Drained'  BY <1>1 DEF Drained
<1>3. CASE ~(kind \in {"logs", "alerts"} /\ MaxRowsReached(Len(emitted)))
  <2>1. UNCHANGED <<finished, buffer>>  BY <1>3 DEF Scan
  <2> QED  BY <1>1, <1>2, <2>1
           DEF IInv, Typed, InOrder, NoGaps, AtCursor, AtEnd, Capped, FetchIsBounded, Fetched, Position
<1>4. CASE kind \in {"logs", "alerts"} /\ MaxRowsReached(Len(emitted))
  <2>1. finished' = TRUE /\ buffer' = << >>  BY <1>4 DEF Scan
  <2>2. /\ emitted \in Seq(1..Total) /\ buffer \in Seq(1..Total)
        /\ emitted' = emitted \o << >> /\ << >> \in Seq(1..Total)
    BY <1>1 DEF Typed
  <2>3. InOrder' /\ NoGaps' /\ AtCursor'
    <3>1. Range(<< >>) = {} /\ Increasing(<< >>) /\ Increasing(buffer)
      BY <1>1, RangeOfEmpty DEF InOrder
    <3> QED  BY <1>1, <2>1, <2>2, <3>1, RowsMove
  <2>4. Typed'  BY <1>1, <2>1 DEF Typed
  <2>5. max_rows \in Nat /\ page_size \in Nat /\ Len(emitted) \in Nat /\ Len(buffer') = 0
        /\ max_rows > 0 /\ Len(emitted) >= max_rows
    BY <1>1, <1>4, <2>1, <2>2, SizesAssumption DEF Typed, MaxRowsReached
  <2>6. AtEnd'  BY <1>1, <2>5 DEF AtEnd, Capped
  <2>7. FetchIsBounded'  BY <1>1, <2>5 DEF FetchIsBounded
  <2> QED  BY <1>2, <2>3, <2>4, <2>6, <2>7 DEF IInv
<1> QED  BY <1>3, <1>4

\* FetchFails.
LEMMA StepFetchFails == IInv /\ FetchFails => IInv'
  BY DEF IInv, FetchFails, config, service, Typed, InOrder, NoGaps, AtCursor, AtEnd, Capped,
         Drained, FetchIsBounded, Fetched, Position

\* Emit.
LEMMA StepEmit == IInv /\ Emit => IInv'
<1> SUFFICES ASSUME IInv, Emit PROVE IInv'  OBVIOUS
<1> DEFINE head == SubSeq(buffer, 1, EmitCount)
           tail == SubSeq(buffer, EmitCount + 1, Len(buffer))
           reached == MaxRowsReached(Len(emitted) + EmitCount)
<1>1. /\ Typed /\ InOrder /\ AtEnd /\ FetchIsBounded
      /\ pc = "fill" /\ emitted' = emitted \o head /\ (buffer = << >> => finished)
      /\ (reached => finished' = TRUE /\ buffer' = << >>)
      /\ (~reached => buffer' = tail /\ finished' = finished)
      /\ pc' = IF EmitCount = 0 THEN "ended" ELSE "idle"
      /\ UNCHANGED <<kind, page_size, max_rows, page_token, seen, cursors, dropped, stale>>
  BY DEF IInv, Emit, NeedsPage, config, service, Typed
<1>2. /\ emitted \in Seq(1..Total) /\ buffer \in Seq(1..Total) /\ Increasing(buffer)
      /\ Len(emitted) \in Nat /\ Len(buffer) \in Nat /\ max_rows \in Nat /\ page_size \in Nat
  BY <1>1, SizesAssumption DEF Typed, InOrder
<1>3. /\ EmitCount \in 0..Len(buffer)
      /\ max_rows > 0 /\ Len(emitted) <= max_rows => Len(emitted) + EmitCount <= max_rows
      /\ EmitCount = 0 => buffer = << >> \/ MaxRowsReached(Len(emitted))
  BY <1>1, EmitBounds
<1>4. /\ head \in Seq(1..Total) /\ tail \in Seq(1..Total)
      /\ Len(head) = EmitCount /\ Len(tail) = Len(buffer) - EmitCount
      /\ Range(head) \cup Range(tail) = Range(buffer)
      /\ Increasing(head) /\ Increasing(tail)
      /\ \A x \in Range(head), y \in Range(tail) : x < y
  <2>1. 1..Total \subseteq Int  OBVIOUS
  <2> QED  BY <1>2, <1>3, <2>1, SplitSequence
<1>5. EmitCount \in Nat /\ EmitCount <= Len(buffer)  BY <1>2, <1>3
<1> HIDE DEF head, tail
<1>6. Len(emitted') = Len(emitted) + EmitCount /\ Len(emitted') \in Nat
  <2>1. Len(emitted \o head) = Len(emitted) + Len(head)  BY <1>2, <1>4, ConcatProperties
  <2> QED  BY <1>1, <1>2, <1>4, <1>5, <2>1
<1>7. (reached => Len(buffer') = 0) /\ (~reached => Len(buffer') = Len(buffer) - EmitCount)
  BY <1>1, <1>4
<1>8. reached <=> max_rows > 0 /\ Len(emitted') >= max_rows  BY <1>6 DEF MaxRowsReached
<1> HIDE DEF reached
<1>9. /\ emitted' \in Seq(1..Total) /\ buffer' \in Seq(1..Total)
      /\ InOrder' /\ NoGaps' /\ AtCursor'
  <2>1. \/ buffer' = tail /\ finished' = finished
        \/ buffer' = << >> /\ finished'
    BY <1>1
  <2> QED  BY <1>1, <1>4, <2>1, RowsMove
<1>10. Typed'
  <2>1. pc' \in {"idle", "fill", "ended", "failed"} /\ finished' \in BOOLEAN  BY <1>1 DEF Typed
  <2> QED  BY <1>1, <1>9, <2>1 DEF Typed
<1>11. AtEnd'
  <2>1. CASE reached
    <3>1. Len(emitted') + Len(buffer') = Len(emitted')  BY <1>6, <1>7, <2>1
    <3>2. Capped'  BY <1>1, <1>8, <2>1, <3>1 DEF Capped
    <3> QED  BY <3>2 DEF AtEnd
  <2>2. CASE ~reached
    <3>1. Len(emitted') + Len(buffer') = Len(emitted) + Len(buffer)
      BY <1>2, <1>5, <1>6, <1>7, <2>2
    <3>2. Fetched' = Fetched
      <4>1. Range(emitted') = Range(emitted) \cup Range(head)  BY <1>1, <1>2, <1>4, RangeOfConcat
      <4> QED  BY <1>1, <1>4, <2>2, <4>1 DEF Fetched
    <3> QED  BY <1>1, <2>2, <3>1, <3>2 DEF AtEnd, Capped
  <2> QED  BY <2>1, <2>2
<1>12. Drained'
  <2> SUFFICES ASSUME EmitCount = 0  PROVE finished' /\ buffer' = << >>
    BY <1>1 DEF Drained
  <2>1. CASE reached  BY <1>1, <2>1
  <2>2. CASE ~reached
    <3>1. ~MaxRowsReached(Len(emitted))
      <4>1. Len(emitted') = Len(emitted)  BY <1>2, <1>6
      <4> QED  BY <1>8, <2>2, <4>1 DEF MaxRowsReached
    <3>2. buffer = << >>  BY <1>3, <3>1
    <3>3. Len(tail) = 0 /\ tail \in Seq(1..Total)  BY <1>4, <3>2
    <3> QED  BY <1>1, <2>2, <3>2, <3>3
  <2> QED  BY <2>1, <2>2
<1>13. FetchIsBounded'
  BY <1>1, <1>2, <1>3, <1>5, <1>6, <1>7 DEF FetchIsBounded
<1> QED  BY <1>9, <1>10, <1>11, <1>12, <1>13 DEF IInv

LEMMA StepIInv == IInv /\ [Next]_vars => IInv'
<1> SUFFICES ASSUME IInv, [Next]_vars PROVE IInv'  OBVIOUS
<1>1. CASE UNCHANGED vars
  BY <1>1 DEF vars, IInv, Typed, InOrder, NoGaps, AtCursor, AtEnd, Capped,
              Drained, FetchIsBounded, Fetched, Position
<1> QED  BY <1>1, StepScan, StepFetchNextPage, StepLoadDependencies, StepFetchFails, StepEmit DEF Next

-----------------------------------------------------------------------------
(* What follows from it                                                    *)

LEMMA TypedImpliesTypeOK == IInv => TypeOK
<1> SUFFICES ASSUME IInv PROVE TypeOK  OBVIOUS
<1>1. Typed  BY DEF IInv
<1>2. DOMAIN cursors = 1..Len(cursors) /\ Len(cursors) \in Nat  BY <1>1 DEF Typed
<1>3. kind # "logs" => page_token \in seen \cup {0}
  BY <1>1, <1>2 DEF Typed, Kinds, Paged
<1>4. /\ \A i \in DOMAIN buffer : buffer[i] \in 1..Total
      /\ \A i \in DOMAIN emitted : emitted[i] \in 1..Total
      /\ \A c \in DOMAIN cursors : cursors[c] \in 0..Total
  <2>1. /\ buffer \in Seq(1..Total) /\ emitted \in Seq(1..Total) /\ cursors \in Seq(0..Total)
    BY <1>1 DEF Typed
  <2> QED  BY <2>1, LenProperties
<1>5. seen \subseteq DOMAIN cursors /\ page_token \in 0..Len(cursors)  BY <1>1, <1>2 DEF Typed
<1> QED  BY <1>1, <1>3, <1>4, <1>5 DEF Typed, TypeOK

LEMMA PrefixIsEmitted == IInv => EmittedIsPrefix
<1> SUFFICES ASSUME IInv PROVE EmittedIsPrefix  OBVIOUS
<1>1. /\ InOrder /\ NoGaps /\ emitted \in Seq(1..Total) /\ buffer \in Seq(1..Total)
  BY DEF IInv, Typed
<1>2. Range(emitted) \subseteq 1..Total  BY <1>1, RangeTyped
<1>3. Range(emitted) \subseteq Wanted  BY <1>1, <1>2 DEF NoGaps, Wanted, Fetched
<1>4. ASSUME NEW i \in DOMAIN emitted, NEW row \in Wanted, row < emitted[i]
      PROVE  row \in Range(emitted)
  <2>1. emitted[i] \in Range(emitted)  BY DEF Range
  <2>2. row \in 1..emitted[i] /\ row \notin dropped  BY <1>2, <1>4, <2>1 DEF Wanted
  <2>3. row \in Fetched  BY <1>1, <2>1, <2>2 DEF NoGaps, Fetched
  <2>4. row \notin Range(buffer)
    <3>1. row \in Int /\ emitted[i] \in Int /\ ~(emitted[i] < row)  BY <1>2, <1>4, <2>1 DEF Wanted
    <3> QED  BY <1>1, <2>1, <3>1 DEF InOrder
  <2> QED  BY <2>3, <2>4 DEF Fetched
<1> QED  BY <1>1, <1>3, <1>4 DEF EmittedIsPrefix, InOrder

LEMMA EndIsComplete == IInv => EndMeansComplete
<1> SUFFICES ASSUME IInv, pc = "ended", ~stale
             PROVE  \/ Wanted \subseteq Range(emitted)
                    \/ max_rows > 0 /\ Len(emitted) = max_rows
  BY DEF EndMeansComplete
<1>1. /\ AtEnd /\ FetchIsBounded /\ finished /\ buffer = << >> /\ Typed  BY DEF IInv, Drained
<1>2. Len(buffer) = 0 /\ Range(buffer) = {}  BY <1>1, RangeOfEmpty
<1>3. CASE Capped
  <2>1. max_rows \in Nat /\ Len(emitted) \in Nat  BY <1>1, SizesAssumption DEF Typed
  <2> QED  BY <1>1, <1>2, <1>3, <2>1 DEF Capped, FetchIsBounded
<1>4. CASE 1..Total \subseteq dropped \cup Fetched
  BY <1>2, <1>4 DEF Fetched, Wanted
<1> QED  BY <1>1, <1>3, <1>4 DEF AtEnd

LEMMA SpecIInv == Spec => []IInv
  BY InitIInv, StepIInv, PTL DEF Spec

\* The variables keep their ranges, and the scans of alerts and metrics remember
\* the cursor they use, whatever cursors the service hands out.
THEOREM TypeCorrect == Spec => []TypeOK
  BY SpecIInv, TypedImpliesTypeOK, PTL

\* The rows the query has got are the first ones of the listing without the
\* resolved incidents: in order, none twice, none left out, for every way of
\* cutting the listing into pages and vectors.
THEOREM RowsInOrder == Spec => []EmittedIsPrefix
  BY SpecIInv, PrefixIsEmitted, PTL

\* Unless a cursor was handed out again, the end of a scan means that the query
\* has got every row, or max_rows rows.
THEOREM EndIsTheEnd == Spec => []EndMeansComplete
  BY SpecIInv, EndIsComplete, PTL

\* No scan fetches more than it may hold or, except of metrics, more than the
\* query can use, and none exceeds max_rows.
THEOREM FetchesAreBounded == Spec => []FetchIsBounded
<1>1. IInv => FetchIsBounded  BY DEF IInv
<1> QED  BY <1>1, SpecIInv, PTL

-----------------------------------------------------------------------------
(* A call of Scan comes to its end                                         *)

WithinBound == Len(cursors) <= MaxCursors

\* What a call of Scan has still to do: a page for each cursor that the service has not handed out
\* yet, one whose cursor is not followed, and the vector.
Left ==
  IF pc # "fill"    THEN 0
  ELSE IF NeedsPage THEN MaxCursors - Len(cursors) + 2
  ELSE 1

\* After a page either nothing more is fetched or a new cursor is in use.
LEMMA FetchTurns ==
  ASSUME Typed, FetchNextPage
  PROVE  \/ page_token' = page_token /\ finished' /\ Len(cursors') \in {Len(cursors), Len(cursors) + 1}
         \/ /\ page_token' = Len(cursors) + 1
            /\ Len(cursors') = Len(cursors) + 1
<1> DEFINE size == RequestSize(Len(emitted) + Len(buffer))
<1>1. cursors \in Seq(0..Total) /\ Len(cursors) \in Nat /\ page_token \in 0..Len(cursors) /\ kind \in Paged
  BY DEF Typed, FetchNextPage
<1>2. CASE size <= 0
  BY <1>2 DEF FetchNextPage, service
<1>3. CASE ~(size <= 0)
  <2>1. PICK p \in PageEnds(page_token, size) :
          \/ cursors' = Append(cursors, p) /\ Receive(p, Len(cursors) + 1)
          \/ Receive(p, 0) /\ cursors' = cursors
          \/ (\E next \in StaleCursors : Receive(p, next)) /\ cursors' = cursors
    BY <1>3 DEF FetchNextPage
  <2>2. Position(page_token) \in 0..Total  BY <1>1, SizesAssumption DEF Typed, Position
  <2>3. p \in 0..Total  BY <2>1, <2>2 DEF PageEnds
  <2>4. ASSUME NEW next, Receive(p, next)
        PROVE  IF Advances(next) THEN page_token' = next ELSE page_token' = page_token /\ finished'
    BY <2>4 DEF Receive, Follow
  <2>5. ~Advances(0)  BY DEF Advances
  <2>6. \A next \in StaleCursors : ~Advances(next)  BY <1>1, FollowedIsNew
  <2>7. Len(Append(cursors, p)) = Len(cursors) + 1  BY <1>1, <2>3
  <2> QED  BY <2>1, <2>4, <2>5, <2>6, <2>7
<1> QED  BY <1>2, <1>3

LEMMA StepWithinBound == IInv /\ WithinBound /\ [Next]_vars => WithinBound'
<1> SUFFICES ASSUME IInv, WithinBound, [Next]_vars PROVE WithinBound'  OBVIOUS
<1>1. cursors \in Seq(0..Total) /\ MaxCursors \in Nat  BY SizesAssumption DEF IInv, Typed
<1>2. CASE FetchNextPage
  <2>1. Typed  BY DEF IInv
  <2>2. cursors' = cursors \/ Len(cursors) < MaxCursors  BY <1>2 DEF FetchNextPage, service
  <2>3. CASE cursors' = cursors  BY <2>3 DEF WithinBound
  <2>4. CASE Len(cursors) < MaxCursors
    <3>1. Len(cursors') \in {Len(cursors), Len(cursors) + 1}  BY <1>2, <2>1, FetchTurns
    <3> QED  BY <1>1, <2>4, <3>1 DEF WithinBound
  <2> QED  BY <2>2, <2>3, <2>4
<1>3. CASE Scan \/ LoadDependencies \/ FetchFails \/ Emit \/ UNCHANGED vars
  BY <1>3 DEF Scan, LoadDependencies, FetchFails, Emit, vars, service, WithinBound
<1> QED  BY <1>2, <1>3 DEF Next

\* Every step of the call leaves less to do.
LEMMA FillLeavesLess ==
  ASSUME IInv, WithinBound, pc = "fill", Next
  PROVE  Left' < Left
<1>1. /\ Typed /\ cursors \in Seq(0..Total) /\ Len(cursors) \in Nat /\ MaxCursors \in Nat
      /\ Len(cursors) <= MaxCursors
  BY SizesAssumption DEF IInv, Typed, WithinBound
<1>2. CASE FetchNextPage
  <2>1. Left = MaxCursors - Len(cursors) + 2  BY <1>2 DEF FetchNextPage, Left
  <2>2. CASE finished'
    <3>1. Left' = 0 \/ Left' = 1  BY <2>2 DEF Left, NeedsPage
    <3> QED  BY <1>1, <2>1, <3>1
  <2>3. CASE ~finished'
    <3>1. Len(cursors') = Len(cursors) + 1  BY <1>1, <1>2, <2>3, FetchTurns
    <3>2. Left' \in {0, 1, MaxCursors - Len(cursors') + 2}  BY DEF Left
    <3> QED  BY <1>1, <2>1, <3>1, <3>2
  <2> QED  BY <2>2, <2>3
<1>3. CASE LoadDependencies
  <2>1. Left = MaxCursors - Len(cursors) + 2  BY <1>3 DEF LoadDependencies, Left
  <2>2. Left' = 0 \/ Left' = 1  BY <1>3 DEF LoadDependencies, Left, NeedsPage
  <2> QED  BY <1>1, <2>1, <2>2
<1>4. CASE FetchFails \/ Emit
  <2>1. pc' # "fill"  BY <1>4 DEF FetchFails, Emit
  <2>2. Left' = 0  BY <2>1 DEF Left
  <2>3. Left > 0  BY <1>1 DEF Left
  <2> QED  BY <2>2, <2>3
<1> QED  BY <1>2, <1>3, <1>4 DEF Next, Scan

\* A call of Scan is at its end after at most two steps more than there are cursors to hand out:
\* each page but the last moves the scan to a cursor that has never been used, however many pages
\* are empty and whichever cursor the service repeats, of the logs scan the one just used
\* (logs_table.cpp:566, :609).
THEOREM ScansComeToTheirEnd ==
  Spec => /\ [](Left \in 0..MaxCursors + 2)
          /\ [][/\ pc = "fill" => Left' < Left
                /\ page_token' # page_token => page_token' = Len(cursors) + 1]_vars
<1>1. IInv /\ WithinBound => Left \in 0..MaxCursors + 2
  <2> SUFFICES ASSUME IInv, WithinBound PROVE Left \in 0..MaxCursors + 2  OBVIOUS
  <2>1. Len(cursors) \in Nat /\ MaxCursors \in Nat  BY SizesAssumption DEF IInv, Typed
  <2> QED  BY <2>1 DEF Left, WithinBound
<1>2. IInv /\ WithinBound /\ [Next]_vars =>
        [/\ pc = "fill" => Left' < Left
         /\ page_token' # page_token => page_token' = Len(cursors) + 1]_vars
  <2>1. ASSUME IInv, Next, page_token' # page_token PROVE page_token' = Len(cursors) + 1
    <3>1. FetchNextPage  BY <2>1 DEF Next, Scan, LoadDependencies, FetchFails, Emit
    <3>2. Typed  BY <2>1 DEF IInv
    <3> QED  BY <2>1, <3>1, <3>2, FetchTurns
  <2> QED  BY <2>1, FillLeavesLess
<1>3. Init => WithinBound  BY SizesAssumption DEF Init, WithinBound
<1> QED  BY <1>1, <1>2, <1>3, SpecIInv, StepWithinBound, PTL DEF Spec
=============================================================================
