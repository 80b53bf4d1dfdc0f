# A TLA+ model of duckdb-gcloud-observability

The extension reads Google Cloud logs, alerts, metrics and service maps as DuckDB tables and writes
logs and metrics from SQL. What is hard in it is neither SQL nor JSON. It is the loops that talk to
services that fail: what may be retried and what must not, which token goes with which request while
other threads use the same cache, how rows are batched without losing or repeating one, how a
listing is read to its end, which part of a WHERE clause may be sent along, whose project a statement
reads, writes and bills, how a response that claims lengths of its own is decoded, and whether a row that
is written is the row that is read. This directory models that in TLA+, checks it with TLC and proves
theorems about every part of it with TLAPS.

Paths below are relative to the extension's `src/` directory unless they name another one.

## Inventory

| Part | State it keeps | Operations | What makes it correct |
|---|---|---|---|
| API client (`gcloud_client.cpp`) | retry budget, one pooled connection; per call: attempt counter, `token_refreshed` | `Request`, `GrpcUnary` (reads), `PostWithoutReplay` (writes) | a write is carried out at most once; bounded effort; a cancelled query stops; a broken socket is not used again |
| Access tokens (`gcloud_auth.cpp`) | process-wide cache under a mutex; the credentials file on disk | `GetGcloudAccessToken`, `InvalidateGcloudTokenCache` | the token belongs to the configuration, the current login and is not the one just rejected |
| `send_gcloud_logs` (`send_logs.cpp`) | one client and `send_mutex` per statement | bind, map rows, write batches | limits of a request; "ok" means stored; a failure leaves a prefix |
| `send_gcloud_metrics` (`send_metrics.cpp`) | as above | bind, map rows, write passes | no series twice in a request; points of a series in order |
| Paged scans (`logs_table.cpp`, `alerts_table.cpp`, `metrics_table.cpp`) | cursor, buffer, rows emitted, cursors seen | fetch a page, emit a vector | every row once, in order, up to the cap; it ends |
| WHERE pushdown (`logs_table.cpp`, `gcloud_json.cpp`) | bounds and severities in the bind data | translate conjuncts while planning | a superset of the rows that match |
| Time texts and JSON helpers (`gcloud_json.cpp`) | none | parse and format timestamps, durations, endpoints, paths | inverse of each other, no overflow |
| Service dependencies (`service_dependencies_table.cpp`, `gcloud_topology.cpp`) | rows of one response | one gRPC call, decode, emit | decoding stays inside the message |
| Secrets and binding (`gcloud_secret.cpp`, `Resolve*` functions) | DuckDB's secrets, the ADC file | resolve credentials, endpoint and project when a statement is bound | a write never goes to a project its credentials do not name |
| Catalog (`gcloud_catalog.cpp`) | options of an ATTACH, open transactions | attach, look up tables, refuse every change | read-only; a replaced secret is picked up |
| Extension entry point, browser transport | none | registration; one attempt through the browser | - |

How they interact: a reader or sender is bound to a secret and owns a client. Its scan or projection
calls the client; the client asks the token cache before every attempt and tells it of a 401. All
clients of the process share the token cache. All projection threads of a statement share the
sender's client, one at a time, through `send_mutex`. Scans are single-threaded (`MaxThreads` is 1).
The pushdown callback runs in the planner and leaves its result in the bind data, from which the
scan builds its request.

Hard to test, and therefore what the properties aim at (the full list with lines is under `hazards`
in `PROJECT.json`): lost responses to writes; two copies of the retry loop with different policies;
rejected tokens while other threads mint; the file rewritten between its stat and its read; clocks
that move while a token is under way; a batch that fails after others succeeded; repeated series in
any order; empty pages and repeated cursors; times before the epoch; the pushdown called again; messages
cut short inside messages that are whole; names that a column and an attribute both claim.

## Modules

| Module | Models | Relation |
|---|---|---|
| `RemoteCall` | what a call of the client promises | abstract |
| `GcloudClient` | the attempt loops | refines `RemoteCall` |
| `TokenCache` | the cache, its threads, the file, the clock, the service's view of tokens | |
| `RowWriter` | what a sender promises of its rows | abstract |
| `SendLogs`, `SendMetrics` | the senders | both refine `RowWriter` |
| `TimeTexts` | times as numbers and as RFC 3339 texts | |
| `LogEntry` | a row of logs on its way to an entry, back to a row, and to the next entry | extends `TimeTexts` |
| `PagedScan` | the paged scans and the service map | |
| `Pushdown` | the translation of WHERE clauses | |
| `Topology` | the bytes of a topology response, decoded to rows | |
| `Binding` | secrets, key files, the login, the attachment, binding and execution of statements | |
| `...Proofs` | theorems about `GcloudClient`, `TokenCache`, `Binding`, `PagedScan`, `Pushdown`, `SendMetrics`, `SendLogs` | extend their module |
| `RowProofs` | theorems about `TimeTexts`, `LogEntry` and `Topology`, which make rows of what a service answers | extends them |
| `MC...` | values of the constants for TLC | extend their module |

Operators whose name ends in `_Something`, with a comment that begins with "Fault", are versions of
the definition below them with a plausible mistake. No specification uses them; they show that each
property can tell the code from a broken version of it (`mutants` in `PROJECT.json`).

### GcloudClient

`pc` walks through one iteration of the loop: `top` (interrupt check, token, headers), `send`,
`wait`, `handle`, `sleep`. `Request`, `PostWithoutReplay` and `GrpcUnary` are one machine; where the
three texts differ, an operator depends on `op`: `RetryableTransport`, `RetryableStatus`, `Delays`,
`ConnectionAfter` (curl opens a connection of its own for each gRPC call). Answers are classes, not
status codes; one class per way the code distinguishes them. `Effects` says what the service may
have done with an attempt that ended so: a lost response or a 5xx leaves it open. `applied`,
`transients`, `sends`, `lateSends` and `waited` are history. One counter serves the retries and the repeat
after a 401, so that a 401 uses up a unit of the budget; the bounds of `BoundedEffort` count it that way.

`RemoteCall` is the abstract view that the senders and scans use: a call begins, may take effect, and
ends; a write takes effect at most once, and has taken effect if it is reported as done.

### TokenCache

One process with any number of threads. Each step of `GetGcloudAccessToken` that reads or writes
something shared is an action: compute the key (stat), look up under the lock, read the file, have
the endpoint issue a token, store it under the lock. The environment may rewrite the file (`Login`),
let time pass (`Tick`) and revoke what was issued (`Revoke`) between any two of them. Tokens are
numbered by issue, so "older than" is "smaller than". `Config` stands for what a key has besides the
file: scope and quota project. The path is the same for all, the harder case.

### SendLogs, SendMetrics

Each thread maps a chunk, takes the mutex, and alternates between building a batch (`Batch`, `Pass`)
and the call (`Store`, `CallReturns`, `Throws`). The service may store entries at any moment while
the call runs and the call may still fail. For logs, the request sets `partialSuccess` to false and
a batch is stored as a whole. For metrics there is no such switch and any part may be stored. What a
row is has been reduced to what batching looks at: its estimated size and what is wrong with it; its
series and whether its value can be serialized. `stage`, `waiting` and `underway` are the view of
`RowWriter`: entries that wait, fly, landed and were acknowledged.

A pass of `SendMetrics` takes the first series it meets, up to the limit. How many requests a chunk takes
therefore depends on the order of its rows: with a limit of 2 the order A B C C takes three requests and
another order of the same points two. `RequestIsAcceptable` says what does hold of every order: a point
waits only if the request is full or has its series.

### PagedScan

One machine for the scans, which differ in `kind`: the logs scan compares a cursor with the
one it just used, alerts and metrics with all they have received; the metrics scan always asks for whole
pages; the listing of open alerts drops incidents that were resolved meanwhile; the service map loads all
rows with its one call (`LoadDependencies`) and cuts them to `max_rows`. A page ends anywhere,
also where it began. A faulty service may answer with a cursor it handed out before.

### Pushdown

A clause grows conjunct by conjunct (`PushFilter`) and with it the request. `SimpleMatch` is what a
conjunct means in SQL, `Requested` what the service returns for the terms sent. Times are whole
nanoseconds with a second of `NanosPerSecond` of them, on both sides of the epoch; `Quotient` is the
division of C++, which truncates.

### Topology

The answer of the topology service as bytes: the loop over frames (`RefuseFrame`, `SkipTrailer`,
`TakeMessage`, `EndOfFrames`), then `ProtoReader` field by field. Each `ProtoReader` of the code that is open
is an element of `stack`, with the message it reads, its cursor, its end and what it has collected; the
calls of the C++ parsers are `ReadField` pushing a reader and `CloseMessage` popping it. `Nested` lists which
field of which message opens which other. The operators about a frame take its position (`FrameLength`,
`FrameEnd`), those about fields a position and an end, so that they say of any place in the body what stands
there, not only of the place the decoder has come to. `Join` is the loop over edges. Texts are byte sequences;
doubles are their eight bytes. `ToJson`, `Members` and `AttributesJson` are the JSON writer, as far as it loses
something: it takes texts and keys by their `c_str`, up to the first NUL (`CString`), and it fails on a document that
holds a number that is infinite or none, wherever it lies (`Unwritable`), which leaves the attributes NULL
(`NoAttributes`). The properties do not use the reader: `Responses` come with the graph that the
service encoded, and `TellsEnd`, `IsNameOf` and their neighbours say by quantifiers what a row must tell of it:
`GraphIsRead` is about the decoding and `RowsTell` about the join. The operators of the specification are called
`DecodeInit`, `DecodeNext` and so on, so that `RowProofs` can extend this module beside `LogEntry`.

What an answer is that breaks off is said without the reader too. `IsFrame`, `IsField` and `HoldsMessage` are the wire
format as a relation between two positions of some bytes. An answer that is not whole comes with where it breaks off
(`BreaksOff`): the frames before, then message in message the fields before, and no whole field after the last.
`BreachesAssumption` says that the answers do so; TLC evaluates it on those of the run, which find the place by the
same relation (`Partials` in `MCTopology`).

### TimeTexts, LogEntry

`FormatRfc3339Nanos` and `ParseRfc3339ToNanos` work on whole seconds and a fraction, with the division of
C++ and the range of `int64_t` as constants. `LogEntry` composes the two halves of the extension that meet only
in the service: `Send` is `BuildWriteLog` and `BuildGcloudWriteBody`, `Read` is `MapEntry`, and a row that was
read may be sent again, as copying logs from one project to another does. An entry is a record of what the
API names; the two JSON columns are records of the key groups the code tells apart. The service keeps an entry as
it was written, with the time it was received.

`RowReadsBack` names what each column is entitled to and where it is not: a label of the monitored resource
is read before the label the sender wrote, so that a service name is only read back when no such label says
otherwise. `CopiesSettle` is why that is harmless: after three copies the preferences of the reader and of the
sender agree, and a row does not change any more.

### Binding

`secrets`, `files` and `adc` are what the user has set up; anything of it may change at any moment
(`ReplaceSecret`, `ReplaceFile`, `ReplaceAdc`). A bind looks a secret up (`GetGcloudCredentials`),
resolves the project (`ReadProject`, `WriteProject`) and keeps both; a bind that throws is not
enabled. `Execute` sends one request and reads the credentials file of that moment, through
`TokenCache` in the code. An attachment keeps what `GcloudAttachOptions` keeps: the name of a secret
and three copies of its project. `read_gcloud_logs` and `read_gcloud_metrics` treat credentials and
projects alike and are one kind, so are the two alert tables and the two senders. `resource_names` counts as a
project asked for; `AskedIsUsed` compares what is bound with it. With several secrets and no name given, DuckDB's order decides; the model leaves
it open. `asked_secret`, `asked_project` and `named` are history: what the user wrote, and every pair of a source of
tokens and a project that was ever given together.

`WritesStayHome` speaks of the source of the tokens (a token, a path, the login), not of the person
behind it. A write bound without a secret takes its project from the login of that moment, and its
token from the login at the moment of each call; a login in between makes them differ. The
documentation says of TOKEN and CREDENTIALS only that they are not mixed with the login.

## Runs

| Run | Checks | Result |
|---|---|---|
| `client_calls` | type (with dropped sockets and capped delays), at-most-once writes, definite failures, bounded effort, cancellation, termination, refinement of `RemoteCall` | holds |
| `token_cache` | type, configuration, expiry, login and rejection of the token used | holds |
| `token_second_401` | a second 401 is not a stale token | violated: see below |
| `token_same_second` | no replay of an old login, logins within a second allowed | violated |
| `send_metrics` | type, acceptable and full requests, order within a series, validation, termination, refinement of `RowWriter` | holds |
| `send_logs` | type, request limits, prefix, termination, refinement of `RowWriter` | holds |
| `logs_validation` | refused rows write nothing | violated |
| `paged_scan` | type, order and completeness, bounded fetching, termination | holds |
| `pushdown` | type, superset, also under a row cap | holds |
| `binding` | type, projects written, billed and read, the secret and the project bound | holds |
| `topology` | readers stay inside their messages, rows tell the graph, cut answers are refused, termination | holds |
| `log_round_trip` | rows that are written are read back, copies settle | holds |

The three violated ones each check a sentence of the documentation that the code does not keep:

- **`token_second_401`.** Thread A is minting. The tokens are revoked. Thread B gets its 401, erases
  the entry and starts over. A stores its revoked token. B finds it and gets a second 401, which the
  code treats as final. The comment says that a second 401 is never a stale token.
- **`token_same_second`.** The key holds the file's mtime in seconds. A login in the second in which
  the old file was written leaves the key unchanged.
- **`logs_validation`.** Attributes are validated for the whole chunk before anything is written, as
  the comment says; log names and log ids are not, and fail a chunk halfway.

### Bounds

- `client_calls`: budgets 0 (retrying off), 2 (mixtures of two retries with the 401), 7 (past the
  cap of the backoff); a Retry-After below, within and above what is followed. Counters of history
  stop above the bounds they are compared with (`Up`).
- `token_cache`: two threads, two configurations and a supplied token, two tokens, two logins, clock
  0 to 2, a margin of 2, lifetimes within (1) and above (3) the margin. Every hazard of the list needs at
  most two tokens and two threads: one that minted early, one that is rejected. The proofs cover the
  rest. Threads and configurations are interchangeable, so symmetry is sound for these invariants.
- `send_metrics`: two threads, chunks of up to four rows of three series, two points per request:
  series repeated inside and across requests, and more series than fit in one.
- `send_logs`: two threads, chunks of up to three rows, two entries and three bytes per request:
  both limits cut batches, and one entry can exceed the byte limit alone.
- `paged_scan`: a listing of four rows, pages of one and three, vectors of two, five cursors, caps
  inside a page, at its end and beyond the listing. The proofs cover any sizes.
- `pushdown`: seconds of three units, times -4 to 4, two severities, one written in two cases, a name
  that is none, clauses of up to two conjuncts, of which one may be a conjunction of two more.
- `binding`: two interchangeable secrets, two projects, one token, one key file; a session starts from any
  combination of them and of the login, and sees one change (`MaxChanges`), which can fall between
  ATTACH, bind and execution. The proofs cover any number of changes.
- `topology`: graphs of up to two nodes, one of which may repeat the id of the other or have none, and up to two
  edges to known, unknown and empty ids; properties of every kind, nested in objects and lists, a length of two
  bytes; nodes and edges with a NUL in ids, labels, keys and texts, and with a number that is none, alone and
  inside an object and a list. Each graph is encoded in four styles (groups of fields turned round, unknown fields of every
  wire type before and after) and in one part or two; some between trailers. Cut answers end at every byte
  of a message while the messages around it are whole. A varint has up to three bytes instead of ten; the
  moduli shrink with it.
- `log_round_trip`: around an empty and a full row, each group of columns takes all its values: times on both
  sides of the epoch at the ends of the range, severities -1 to 25 with every name, trace flags, services with
  labels of the same names, attributes with the names of columns, log ids at the length limit. Entries of
  other writers as Cloud Run, GKE, audit logs and structured loggers write them, also with empty names, messages
  and fields, at which the reader stops as at any other text (`LookupStr`). A second has 8 units, a log id
  less than 9 characters; four copies (`MaxCopies`), one more than `CopiesSettle` needs.
  Left out of the rows: two labels with the same snake case (or `serviceName` beside a service name, which the
  sender would write twice), trace ids with a slash that are no resource name, times of other
  writers beyond `int64_t`, and rows from JSON that does not parse, which `SendLogs` refuses.

### Deadlock

`send_metrics`, `send_logs`, `paged_scan` and `topology` switch the deadlock check off: a statement or a
response ends. `ChunkEnds`, `ScanReturns` and `DecodeEnds` state that it does not stop anywhere else.
`log_round_trip` stops after a refused row and after `MaxCopies`. In the other modules something can
always happen.

### Fairness

- The client's steps are weakly fair together. The calling thread runs on, and an attempt ends
  because the connection and read timeouts bound it. Cancellation and new calls are not fair.
- A sender's thread that waits for the mutex, builds a batch or is in a call is weakly fair; calls
  end by `CallTerminates`. Every thread takes the mutex once, so weak fairness of the lock is enough:
  whoever holds it gives it back and does not ask again. That the service stores anything is not assumed.
- A scan's steps inside one call of DuckDB are weakly fair. DuckDB need not call again.
- Decoding is a loop of one thread over bytes in memory: its steps are weakly fair.

## Proofs

Everything below is proved by `tlapm` for all values of the constants, from the named assumptions of
the modules alone (`RetryBudgetsAssumption` and its neighbours, `TimeAssumption`, `DelayAssumption`,
`StaticAssumption`, ...).

**`GcloudClientProofs`.** `TypeCorrect` needs that every delay lies in 0..60 (`DelaysRange`), for any
Retry-After. `EffortIsBounded` strengthens the bound to `Effort`, which counts where in the loop the
call stands: sends equal the attempts begun, and the attempt counter is ahead of the budget by one
exactly when a 401 was handled. `WritesAreAtMostOnce` and `UnwarnedFailuresAreDefinite` share
`Delivery`: before an attempt of a write is sent, nothing has been applied; after it, what was
applied is what the answer allows. `AtMostOnceWrite` alone is not inductive, because it does not say
that a loop that goes round has applied nothing. `CancellationStopsRetries` uses `Late`.
That a socket that failed is gone before the next attempt is part of `TypeOK`. `ClientKeepsRemoteCall` maps every step to a step of
`RemoteCall` or to a stutter. `CallsComeToTheirEnd` counts what is `Left` of a call: five steps for each attempt the
budget and the one 401 allow. It uses `Effort` once more, for a call that sleeps has an attempt left.

**`TokenCacheProofs`.** `Provenance` ties every token, cached or held, to the key under which the
thread that asked for it computed it; `TokensMatchConfigs` follows. `Early`: a token that is stored
was issued at most `MaxDelay` ago, and `MaxDelay` is within the margin (`DelayAssumption`), so that
`UsableEntriesAreUnexpired`. `Erased` is the invariant behind `RejectedTokensAreNotResent`: after the
rejection the token is under no key the request can still compute (keys only grow with the clock,
`KeysAreNotAhead`), and no thread holds it in order to store it. `Dated` says that of two keys of one
login-dated file the later key has the later login; `OldLoginsAreNotReplayed` holds under the
additional assumption `~SameSecond`, and the run `token_same_second` shows why it is needed.

**`BindingProofs`.** `Inv` has four parts: what is given now has been recorded (`Present`), what each
statement holds was given together (`Bindings`), the three copies of an attachment's project agree
(`AlikeTables`), and the request just sent is right (`Requested`). The last alone is not inductive: it does not
say what a bound statement will send after secrets and files have changed. The main lemma is
`WriteGiven`: each of the three ways to resolve the project of a write uses the same source as the tokens
will. `AskedIsUsed` is an action property: only `Store` puts new data into a statement, and it stores what a
lookup finds (`StoreAsks`), with the project that was asked for; `AlikeTables` says that every kind of table of
an attachment has it.

**`PagedScanProofs`.** What was fetched is the listing from its start without the incidents that were
resolved (`NoGaps`), in order (`InOrder`), rows emitted before rows buffered. `AtCursor` is the part that
makes it inductive: while the scan goes on, the fetched rows end exactly where the cursor in use stands,
because no cursor is followed twice. `AtEnd` says what finishing means. `EmittedIsPrefix`, `EndMeansComplete`
and `FetchIsBounded` follow, for any listing, page sizes, caps and pagination. It needs `SizesAssumption`.
`ScansComeToTheirEnd`: a page either ends the fetching or brings a cursor that was never used (`FetchTurns`), so that a
call of `Scan` makes at most one request more than there are new cursors, however many pages are empty. Nothing in
the code bounds the new cursors a service hands out; `MaxCursors` stands for that number.

**`PushdownProofs`.** The invariant says of the terms collected so far what `NoMatchIsLost` says of the
request: every row that matches the conjuncts seen satisfies them. The lemmas are that the floor is not above a
time and the ceiling not below it (`FloorIsBelow`, `CeilIsAbove`), before the epoch too, and that
bounds that cross match no row (`Crossing`), so that an empty result is no loss. It holds for clauses of any
length and any sets of filters of the module's forms.

**`RowProofs`**, four groups of theorems about rows.

*Times.* `WrittenTimesAreRead`: reading the text of a time gives the time back, to the nanosecond, for every time
of the range but those in its lowest microsecond, whose start the parser cannot represent. No run states it by
itself; `log_round_trip` uses both operators in `TimeReadsBack`, and the theorems about `LogEntry` cite it.

*Rows of logs.* `RowsAreReadBack` and `CopyingSettles` hold for any rows, entries of other writers, labels,
payloads and times, and any number of copies. `RowReadsBack` alone is not inductive: the next row that is sent
is one that was read, and whether its labels may be sent depends on the whole of `MapEntry`. `Inv` therefore
says that whatever is at hand is a row that can be sent (`IsRow`), that the entry is that of the row sent and what
was read is read from it; its main lemma is `ReadIsRow`, that the reader makes rows of any entry (`IsEntry`).
`CopiesSettle` needs what each copy adds. After one (`StageOne`) labels are in snake case, times are nanoseconds
that can be read, the body is what the fields of the payload say if there are any, and the columns that only the sender
knows are empty. An empty body is not sent, but the empty message it was read from still is, among the fields
(`EmptyStays`). After two (`StageTwo`) the columns of the
service, the body and the log id say what the attributes say; after three (`StageThree`) labels, payload and flags say what
the columns say. `FirstStage`, `SecondStage` and `ThirdStage` prove each from the one before, and `LastStage` that a row in
all three is its own copy. The assumptions: what `IsRow` and `IsEntry` say of the rows and entries
(`RowsAssumption`, `EntriesAssumption`: types, and the exclusions listed under Bounds), that `ToSnakeCase` changes
nothing a second time and no name that the code writes or looks for (`SnakeCaseAssumption`), that now can be
written and read (`TimesAssumption`), and that a JSON value that is no string is none (`TextsAssumption`).

*The service map.* `MessagesLieInEachOther` (`TypeOK` of `Topology`): whatever bytes the service sends, no reader
passes the end of the one below it. The invariant, `DecodeInv`, is about the stack: each reader ends where the one below
it goes on (`LieInEachOther`), the first one at the end of its frame, which lies in the body. What makes it
inductive is that the outer reader steps over a field before the field is opened, and that only the last reader moves
(`LastGoesOn`, `OneMore`, `LastCollects`). `RowsTellTheGraph`: for any graph that was read, with any keys, labels
and separators, the rows are its edges with what the graph says of their ends. Its lemmas take `FindStringProperty`,
`LastResourceSegment`, `ConcreteType` and the map `node_by_id`, which scan sequences, to the quantifiers of the
property (`FoundIsSaid`, `SegmentIs`, `TypeIs`, `IdIsMeant`). They need that bodies, keys and graphs are sequences
(`ResponsesAssumption`, `KeysAssumption`, `GraphsAssumption`) and that a varint has at least a byte (`WidthsAssumption`).

*What the bytes say.* `IsReading(R)` says what the bytes of an answer mean without a stack: `R` holds facts, each of a
message that has been read up to some position with some value, and is closed under one more field, where a field that
holds a message waits for a fact that this message has been read to its end. Model and facts share the operators for
one frame and one field (`FrameEnd`, `Fields`, `Absorb`, `Adopt`); what the facts leave out is the control, that is the
loop, the readers that are open and the order in which they are pushed and popped. `DecodesWhatTheBytesSay` is
unconditional: for every body and every such `R`, nodes and edges that are decoded are those of a response that `R`
has at its end, and an answer is refused only if `R` has a fact at which the bytes cannot be read on (`IsFault`). The
invariant is `Follows`: the top of the stack is a fact of `R`, and below it each reader `Waits`: whatever end the
reader above it comes to, adopting that is a fact. A corollary connects this with the
property of the run, `WholeAnswersAreRead`: if the bytes say the graph and no fault (`Encodes`),
`DependenciesTellTheGraph`. Its hypothesis speaks of the bytes and the graph, never of the decoder.

`PartsAreRefused` (`CutShortIsRefused`) is not about readings: where an answer breaks off is said by the relations of
the wire format, which share with the reader only the value of a varint (`VarintValue`) and which field is which
message (`Nested`), and the theorem is that the reader, with its lengths, skips and nested ends, cannot get past such a
place. It needs `BreachesAssumption` and the widths. Its invariant, `BreachInv`, follows the decoder to that place:
the loop is at one of the frames that lead there, or the message has been taken (`FramesLead`, `MessageLeads`), and then
some open reader is at one of the fields that lead there (`ReadersLead`), whatever the readers above it do. A varint
and a field can be read in one way only (`IsVarint` and `IsField` are functions of where they start), so that a
reader on the way takes the field of the grammar, and where that is the last one it either opens the message
that leads on or finds nothing that is whole; it never comes to its end. A reader that clips a length is not on that
way any more.

`DecodingComesToItsEnd`: a body of *n* bytes takes at most 3*n* + 3 steps, since each step moves a cursor or closes a
reader, and a field has at least a byte.

**`SendMetricsProofs`.** `IInv` follows every point of every thread: it is pending, under way or reported
(`Accounted`); whatever is under way or stored comes after all earlier points of its series, which are reported
(`Ordered`). `SeriesInOrder` alone speaks of stored points only, and a point is stored one step after it was
sent. `Acceptable` uses that a batch takes the first few of the first points of their series (`FirstFew`,
`LeastOf`). `WritesAsRowWriter` maps each step to one of `RowWriter`. `ChunksComeToTheirEnd`: each pass takes a
point of the finitely many that are pending (`PendingIsFinite`), so that a chunk of *n* points takes its thread at
most 2*n* + 2 steps, the steps of other threads and of the service leave as much, and whoever holds the mutex is in its
loop. It needs `ChunksAssumption`: chunks are
sequences, each element a point or one of the two refusals.

**`SendLogsProofs`.** Confirmed entries are exactly those reported, from the first to `offset`; besides
them at most the batch under way is stored, as a whole (`Confirmed`). `StoredIsPrefix` follows, and
the steps of `RowWriter` (`WritesAsRowWriter`). The entries of a chunk are computed by a recursive function
over its rows; what it yields (`MappedRows`) is proved by the least row at which it would go wrong.
`ChunksComeToTheirEnd` says of the loop over batches what it says of the passes above.

`DelayAssumption` deserves a note: the timeout of the token request is 60 seconds unless an ATTACH or
a scan asks for a longer one, and the margin is 60 seconds. With a longer TIMEOUT the assumption,
and with it `UsableEntryIsUnexpired`, is not given.

Only model-checked:

- Liveness (`CallTerminates`, `ChunkEnds` of both senders, `ScanReturns`, `DecodeEnds`). Fairness and ENABLED are out of
  the prover's reach. What is proved is the other half of each, the measure that every step makes smaller
  (`CallsComeToTheirEnd`, `ChunksComeToTheirEnd`, `ScansComeToTheirEnd`, `DecodingComesToItsEnd`): a loop can fail to end
  only by standing still. That it does not stand still before its end is what TLC adds.
- That the bytes of a whole answer say its graph, which is the hypothesis of `WholeAnswersAreRead`. It is about what an
  encoder writes, by induction over the messages of a graph; the library's induction theorems take an operator as
  parameter, which the provers at hand cannot instantiate. `topology` checks the conclusion,
  `DependenciesTellTheGraph`, for all its answers, without the hypothesis.
- That the runs that are violated are violated: a counterexample is its own proof.

## Not modelled

- The mapping of incidents (`alerts_table.cpp`) and points (`metrics_table.cpp`) to columns: each copies members
  of one object, with no counterpart that writes them. The query strings of the scans; the layout of requests,
  apart from what `LogEntry` has. `BuildGcloudServiceDependenciesRequest`, which encodes arguments.
- The names under which `send_gcloud_logs` accepts columns, generated insert ids (one value stands for all),
  and percent-decoding of gRPC error texts.
- Relative times (`-15m`), durations and endpoints. A relative time is a product that can leave 64 bits for
  amounts no statement means; nothing in the code says what should happen then. The logs scan resolves
  relative times when it is bound, the metrics scan when it starts, and no document says which is meant.
- The browser build: one attempt, no loop, no cache. TLS settings and scopes, which a bind copies. Schemas
  and transactions of the catalog, which do nothing. Registration.
- The depth of an answer: `ParseProtoValue` and `ToJson` call themselves for each message in a message, without a limit,
  and the stack of the process ends before that of the model. Texts are taken to be UTF-8, which the JSON
  writer asks for.
- A gRPC status UNAUTHENTICATED inside an HTTP 200 does not drop the token, unlike a 401; no document says what
  should happen. Entries of the token cache under keys of old logins are never erased: one small entry for
  each login.
- `A`, `B`, `A` cursor cycles in the logs scan. The scan remembers only the cursor it just used and
  would follow the cycle for ever; the alert and metric scans recognise it. The code does not claim
  otherwise, so `PagedScan` restricts what a faulty service does to that scan.
- The order of points of one series across chunks of different threads. The mutex orders whole chunks
  by arrival; the documentation asks for ORDER BY.

## Plan

1. Composition: a sender over `TokenCache` and `Binding`, so that a replaced secret, a rejected token and a
   failed batch meet in one behaviour.
2. The columns of alerts and metrics, and relative times with their widths, as further pure modules.
3. An encoder of graphs as a recursive function, and `Encodes` proved of it, for a prover that can instantiate an
   induction theorem.
4. Theorems about what single steps may do where only invariants are proved so far, for instance that a row
   of `LogEntry` that was refused stays as it was.
