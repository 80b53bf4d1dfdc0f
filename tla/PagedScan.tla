----------------------------- MODULE PagedScan ------------------------------
(***************************************************************************)
(* The scans of the table functions.  Those of read_gcloud_logs and the    *)
(* logs table, of the alert tables and of read_gcloud_metrics read a       *)
(* listing page by page; that of the service map loads all of it with one  *)
(* call.  DuckDB calls Scan for a vector of rows at a time until it        *)
(* returns none; Scan fetches a page when it has no row buffered, and      *)
(* emits from the buffer.                                                  *)
(*                                                                         *)
(* The service holds a fixed listing, rows 1 to Total.  Each page carries  *)
(* the next rows after its cursor, perhaps none, and a cursor for the page *)
(* after it.  A faulty service hands out a cursor again.  A call may be    *)
(* retried (GcloudClient), which repeats the page and not the advance.     *)
(***************************************************************************)
EXTENDS Integers, Sequences, FiniteSetsExt

CONSTANTS
  Total,       \* rows of the listing
  PageSizes,   \* the values of page_size
  RowCaps,     \* the values of max_rows, 0 for no limit
  VectorSize,  \* STANDARD_VECTOR_SIZE
  MaxCursors   \* bound on the cursors the service hands out

ASSUME SizesAssumption ==
  /\ Total \in Nat /\ MaxCursors \in Nat
  /\ VectorSize \in Nat \ {0} /\ RowCaps \subseteq Nat /\ PageSizes \subseteq Nat \ {0}

Paged == {"logs", "alerts", "metrics"}
Kinds == Paged \cup {"service_map"}

VARIABLES
  kind,       \* the scan
  page_size,  \* its settings
  max_rows,
  pc,         \* "idle" between calls of Scan, "fill" inside one
  page_token, \* the cursor of the next page, 0 for the first one
  seen,       \* seen_page_tokens of alerts and metrics
  buffer,     \* the rows fetched and not emitted
  emitted,    \* the rows emitted, of which the code keeps the number
  finished,   \* no page follows
  \* The service.
  cursors,    \* the position each cursor stands for
  dropped,    \* incidents that were reported as resolved (alerts)
  stale       \* whether a cursor was handed out again

config  == <<kind, page_size, max_rows>>
service == <<cursors, dropped, stale>>
vars == <<kind, page_size, max_rows, pc, page_token, seen, buffer, emitted, finished,
          cursors, dropped, stale>>

Init ==
  /\ kind \in Kinds /\ page_size \in PageSizes /\ max_rows \in RowCaps
  /\ pc = "idle" /\ page_token = 0 /\ seen = {}
  /\ buffer = << >> /\ emitted = << >> /\ finished = FALSE
  /\ cursors = << >> /\ dropped = {} /\ stale = FALSE

-----------------------------------------------------------------------------
(* The service                                                             *)

Position(c) == IF c = 0 THEN 0 ELSE cursors[c]

\* A page of at most size rows after cursor c ends at position p.
PageEnds(c, size) == {p \in Position(c)..Total : p <= Position(c) + size}

\* The cursors handed out before that a faulty service may answer with.  Of the
\* logs scan only the repetition of the cursor just used is considered: it does
\* not recognise an older one, and follows it.
StaleCursors == IF kind = "logs" THEN {page_token} \ {0} ELSE DOMAIN cursors

-----------------------------------------------------------------------------
(* FetchNextPage                                                           *)

MaxRowsReached(n) == max_rows > 0 /\ n >= max_rows

\* Fault: the last page is fetched in full.
RequestSize_Unclipped(accounted) == page_size

\* GetGcloudLogsPageSize: no more rows than the scan can still use.  The metrics
\* scan always asks for page_size.
RequestSize(accounted) ==
  IF max_rows = 0 \/ kind = "metrics" THEN page_size
  ELSE IF accounted >= max_rows       THEN 0
  ELSE Min({page_size, max_rows - accounted})

\* Fault: any cursor is followed.
Advances_Always(next) == next # 0

\* Fault: only the cursor just used is recognised.
Advances_Immediate(next) == next # 0 /\ next # page_token

\* A cursor is followed unless it is known: the logs scan compares it with the
\* one it just used, the others with every one they have received.
Advances(next) ==
  /\ next # 0
  /\ next # page_token
  /\ kind # "logs" => next \notin seen

\* Fault: received cursors are not remembered.
Remembered_Nothing(next) == seen

Remembered(next) == IF kind = "logs" \/ next \in {0, page_token} THEN seen ELSE seen \cup {next}

\* Fault: an empty page ends the scan.
Follow_UnlessEmpty(rows, next) ==
  IF Advances(next) /\ rows # << >>
  THEN /\ page_token' = next
       /\ UNCHANGED finished
  ELSE /\ finished' = TRUE
       /\ UNCHANGED page_token

\* The cursor alone decides whether a page follows.
Follow(rows, next) ==
  IF Advances(next)
  THEN /\ page_token' = next
       /\ UNCHANGED finished
  ELSE /\ finished' = TRUE
       /\ UNCHANGED page_token

Increasing(rows) == \A i, j \in DOMAIN rows : i < j => rows[i] < rows[j]

\* The page up to position p arrives, with the cursor next.  Incidents that have
\* been resolved are not on it.
Receive(p, next) ==
  LET page == Position(page_token) + 1 .. p IN
  \E n \in 0..p - Position(page_token) : \E rows \in [1..n -> page] :
    /\ Increasing(rows)
    /\ kind # "alerts" => Range(rows) = page
    /\ buffer' = buffer \o rows
    /\ dropped' = dropped \cup (page \ Range(rows))
    /\ seen' = Remembered(next)
    /\ Follow(rows, next)

NeedsPage == buffer = << >> /\ ~finished

FetchNextPage ==
  /\ pc = "fill" /\ kind \in Paged
  /\ NeedsPage
  /\ LET size == RequestSize(Len(emitted) + Len(buffer)) IN
     IF size <= 0
     THEN /\ finished' = TRUE
          /\ UNCHANGED <<page_token, seen, buffer, service>>
     ELSE \E p \in PageEnds(page_token, size) :
            \/ /\ Len(cursors) < MaxCursors
               /\ cursors' = Append(cursors, p)
               /\ Receive(p, Len(cursors) + 1)
               /\ UNCHANGED stale
            \/ /\ p = Total
               /\ Receive(p, 0)
               /\ UNCHANGED <<cursors, stale>>
            \/ /\ \E next \in StaleCursors : Receive(p, next)
               /\ stale' = TRUE
               /\ UNCHANGED cursors
  /\ UNCHANGED <<config, pc, emitted>>

\* The service map: one call, of whose rows max_rows are kept.
LoadDependencies ==
  /\ pc = "fill" /\ kind = "service_map"
  /\ NeedsPage
  /\ buffer' = [i \in 1..(IF max_rows > 0 THEN Min({Total, max_rows}) ELSE Total) |-> i]
  /\ finished' = TRUE
  /\ UNCHANGED <<config, pc, page_token, seen, emitted, service>>

\* The call fails, or its response is not what is expected: the exception ends
\* the query.
FetchFails ==
  /\ pc = "fill"
  /\ NeedsPage
  /\ pc' = "failed"
  /\ UNCHANGED <<config, page_token, seen, buffer, emitted, finished, service>>

-----------------------------------------------------------------------------
(* Scan                                                                    *)

\* DuckDB asks for the next vector.  The logs and the alerts scan stop here
\* before issuing another request once they have emitted max_rows.
Scan ==
  /\ pc = "idle"
  /\ pc' = "fill"
  /\ IF kind \in {"logs", "alerts"} /\ MaxRowsReached(Len(emitted))
     THEN finished' = TRUE /\ buffer' = << >>
     ELSE UNCHANGED <<finished, buffer>>
  /\ UNCHANGED <<config, page_token, seen, emitted, service>>

\* The rows one call emits.
EmitCount ==
  Min({Len(buffer), VectorSize}
        \cup IF max_rows > 0 THEN {Max({0, max_rows - Len(emitted)})} ELSE {})

\* The vector is filled; reaching max_rows ends the scan.  A vector without rows
\* tells DuckDB that there are no more.
Emit ==
  /\ pc = "fill"
  /\ ~NeedsPage
  /\ emitted' = emitted \o SubSeq(buffer, 1, EmitCount)
  /\ IF MaxRowsReached(Len(emitted) + EmitCount)
     THEN finished' = TRUE /\ buffer' = << >>
     ELSE /\ buffer' = SubSeq(buffer, EmitCount + 1, Len(buffer))
          /\ UNCHANGED finished
  /\ pc' = IF EmitCount = 0 THEN "ended" ELSE "idle"
  /\ UNCHANGED <<config, page_token, seen, service>>

Next == Scan \/ FetchNextPage \/ LoadDependencies \/ FetchFails \/ Emit

\* A call of Scan keeps running, and every page arrives or fails (CallTerminates
\* of GcloudClient).  DuckDB need not call again: a LIMIT may be satisfied.
Fairness == WF_vars(FetchNextPage \/ LoadDependencies \/ FetchFails \/ Emit)

Spec == Init /\ [][Next]_vars
FairSpec == Spec /\ Fairness

-----------------------------------------------------------------------------
(* Properties                                                              *)

\* The ranges of the variables.  A cursor in use has been handed out, and the
\* scans of alerts and metrics remember it.
TypeOK ==
  /\ kind \in Kinds /\ page_size \in PageSizes /\ max_rows \in RowCaps
  /\ pc \in {"idle", "fill", "ended", "failed"}
  /\ page_token \in 0..Len(cursors)
  /\ seen \subseteq DOMAIN cursors
  /\ kind # "logs" => page_token \in seen \cup {0}
  /\ \A i \in DOMAIN buffer : buffer[i] \in 1..Total
  /\ \A i \in DOMAIN emitted : emitted[i] \in 1..Total
  /\ finished \in BOOLEAN /\ stale \in BOOLEAN
  /\ \A c \in DOMAIN cursors : cursors[c] \in 0..Total
  /\ dropped \subseteq 1..Total

\* The rows of the listing that the scan is to return.
Wanted == 1..Total \ dropped

\* Rows come out in the order of the listing, none twice and none left out,
\* however they are spread over pages and vectors, and although a faulty
\* service may send the scan back (logs_table.cpp:609).
EmittedIsPrefix ==
  /\ Increasing(emitted)
  /\ Range(emitted) \subseteq Wanted
  /\ \A i \in DOMAIN emitted : \A row \in Wanted : row < emitted[i] => row \in Range(emitted)

\* A scan that says it is done has returned everything, or max_rows rows; pages
\* without rows do not end it (logs_table.cpp:566).
EndMeansComplete ==
  pc = "ended" /\ ~stale =>
    \/ Wanted \subseteq Range(emitted)
    \/ max_rows > 0 /\ Len(emitted) = max_rows

\* A paged scan streams: it never holds more than a page (logs_table.cpp:528).
\* And max_rows is never exceeded, nor, except of metrics, is a row fetched
\* that the query cannot use (logs_table.cpp:575).
FetchIsBounded ==
  /\ kind \in Paged => Len(buffer) <= page_size
  /\ max_rows > 0 =>
       /\ Len(emitted) <= max_rows
       /\ kind # "metrics" => Len(emitted) + Len(buffer) <= max_rows

\* Every call of Scan returns: empty pages and repeated cursors cannot keep it.
ScanReturns == (pc = "fill") ~> (pc # "fill")
=============================================================================
