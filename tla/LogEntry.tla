------------------------------ MODULE LogEntry ------------------------------
(***************************************************************************)
(* A row of logs on its way through Cloud Logging.  send_gcloud_logs turns *)
(* it into a LogEntry, the scan of read_gcloud_logs and of the logs table  *)
(* turns the entry back into a row, and that row may be sent again, as it  *)
(* is when logs are copied.  Entries of other writers are read, too.       *)
(*                                                                         *)
(* An empty text stands for NULL: the sender does not tell them apart and  *)
(* the JSON of the service leaves it out.  Other optional values are sets  *)
(* of at most one value.  A JSON object is a function; the attribute       *)
(* columns are records of the groups of keys that the code tells apart:    *)
(* uid is log.record.uid, labels are those that start with gcp.label.,     *)
(* fields the rest.                                                        *)
(***************************************************************************)
EXTENDS TimeTexts, Sequences, SequencesExt

CONSTANTS
  Project,       \* the project rows are sent to
  Rows,          \* rows that are sent
  Entries,       \* entries of other writers
  SnakeCase,     \* ToSnakeCase on the keys of labels
  NotText,       \* a JSON value that is not a string
  Now,           \* the time of sending
  NanosPerMilli,
  MaxLogId,      \* the length a log id must stay below
  MaxCopies      \* bound: how often a row is sent

NULL == ""

\* The labels that the sender writes and those that the reader looks for: their names
\* are in snake case.
WrittenLabels == {"project_id", "service_name", "service_namespace", "service_instance_id"}
ReadLabels    == {"namespace_name", "namespace_id", "instance_id", "pod_name", "revision_name", "task_id"}

ASSUME TextsAssumption ==
  /\ {NULL, "d", "%2F", "{..}"} \subseteq STRING
  /\ Project \in STRING \ {NULL}
  /\ NotText \notin STRING
ASSUME TimesAssumption == Readable(Now) /\ NanosPerMilli \in Nat \ {0} /\ 0 \in Nanos
ASSUME SnakeCaseAssumption ==
  /\ \A k \in DOMAIN SnakeCase :
       /\ SnakeCase[k] \in DOMAIN SnakeCase
       /\ SnakeCase[SnakeCase[k]] = SnakeCase[k]
  /\ WrittenLabels \subseteq DOMAIN SnakeCase
  /\ \A k \in (WrittenLabels \cup ReadLabels) \cap DOMAIN SnakeCase : SnakeCase[k] = k

VARIABLES
  phase,  \* "given", and then "stored" and "read" in turn, or "refused"
  copies, \* how often the row was sent
  row,    \* the row at hand
  entry,  \* the entry that was stored last
  sent    \* the row that was sent last

vars == <<phase, copies, row, entry, sent>>

\* An object without members, and one without those that are empty texts (GcloudPutStr).
Nothing == [k \in {} |-> NULL]
Put(o) == [k \in {l \in DOMAIN o : o[l] # NULL} |-> o[k]]

\* The members of two objects; those of the first win.
Merge(first, second) ==
  [k \in DOMAIN first \cup DOMAIN second |-> IF k \in DOMAIN first THEN first[k] ELSE second[k]]

\* The string members of an object.
Texts(o) == [k \in {l \in DOMAIN o : o[l] # NotText} |-> o[k]]

\* GcloudLookupStr: what o holds under the first of the keys where it holds a string, even
\* an empty one, and what the caller takes otherwise.
LookupStr(o, keys, otherwise) ==
  LET hits == {i \in DOMAIN keys : keys[i] \in DOMAIN Texts(o)}
  IN  IF hits = {} THEN otherwise ELSE o[keys[Min(hits)]]

\* The first of some texts that is not empty.
FirstOf(texts) ==
  LET given == {i \in DOMAIN texts : texts[i] # NULL}
  IN  IF given = {} THEN NULL ELSE texts[Min(given)]

-----------------------------------------------------------------------------
(* The sender: BuildWriteLog                                               *)

Names == {"DEFAULT", "DEBUG", "INFO", "NOTICE", "WARNING", "ERROR", "CRITICAL", "ALERT", "EMERGENCY"}

NormalizeSeverity(text) ==
  CASE text = "TRACE" -> "DEBUG"
    [] text = "WARN"  -> "WARNING"
    [] text = "FATAL" -> "CRITICAL"
    [] text = "PANIC" -> "EMERGENCY"
    [] text \in Names -> text
    [] OTHER          -> NULL

SeverityNumberToGcloud(n) ==
  CASE n \in 1..8   -> "DEBUG"
    [] n \in 9..12  -> "INFO"
    [] n \in 13..16 -> "WARNING"
    [] n \in 17..20 -> "ERROR"
    [] n = 21       -> "CRITICAL"
    [] n = 22       -> "ALERT"
    [] n \in 23..24 -> "EMERGENCY"
    [] OTHER        -> "DEFAULT"

Severity(r) == FirstOf(<<NormalizeSeverity(r.severity_text), SeverityNumberToGcloud(r.severity_number)>>)

\* A time column: nanoseconds, or milliseconds that may leave the range.
ReadTimestampNanos(column) ==
  {IF time.unit = "nanos" THEN time.n ELSE time.n * NanosPerMilli :
     time \in {t \in column : t.unit = "millis" =>
                 /\ t.n <= Quotient(MaxNanos, NanosPerMilli)
                 /\ t.n >= Quotient(MinNanos, NanosPerMilli)}}

Timestamp(r) ==
  CASE ReadTimestampNanos(r.time) # {}     -> CHOOSE n \in ReadTimestampNanos(r.time) : TRUE
    [] ReadTimestampNanos(r.time) = {} /\ ReadTimestampNanos(r.observed_time) # {}
                                           -> CHOOSE n \in ReadTimestampNanos(r.observed_time) : TRUE
    [] OTHER                               -> Now

\* trace_sampled, or bit 0 of the flags.
Sampled(r) ==
  IF r.trace_sampled # {} THEN r.trace_sampled # {0}
  ELSE \E flags \in r.flags : flags % 2 = 1

InsertId(r) == FirstOf(<<r.insert_id, r.log_attributes.uid, "generated">>)

-----------------------------------------------------------------------------
(* The sender: BuildGcloudWriteBody                                        *)

\* A log id is a sequence of characters: allowed ones, "/", which is encoded as "%2F",
\* that code, which takes three characters, and others, which are refused.
Length(id) == Len(id) + 2 * Len(SelectSeq(id, LAMBDA c : c = "%2F"))

LogIdIsValid(id) == Length(id) < MaxLogId /\ "?" \notin ToSet(id)

\* Fault: a code that is there is encoded again.
EncodeLogId_Again(id) ==
  IF id = << >> THEN <<"d">>
  ELSE FlattenSeq([i \in DOMAIN id |-> CASE id[i] = "/"   -> <<"%2F">>
                                        [] id[i] = "%2F" -> <<"%25", "2", "F">>
                                        [] id[i] = "%25" -> <<"%25", "2", "5">>
                                        [] OTHER         -> <<id[i]>>])

EncodeLogId(id) ==
  IF id = << >> THEN <<"d">>
  ELSE [i \in DOMAIN id |-> IF id[i] = "/" THEN "%2F" ELSE id[i]]

LogId(r) == IF r.log_id # << >> THEN r.log_id ELSE r.resource_attributes.log_id

\* A log name of another project is refused, and so is a log id that cannot be encoded.
Refused(r) ==
  IF r.log_name # {} THEN \E name \in r.log_name : name.parent # <<"gcp.project", Project>>
  ELSE ~LogIdIsValid(LogId(r))

LogName(r) ==
  IF r.log_name # {} THEN CHOOSE name \in r.log_name : TRUE
  ELSE [parent |-> <<"gcp.project", Project>>, id |-> EncodeLogId(LogId(r))]

\* The members of a jsonPayload that come from columns of their own.
Message(r) == Put([message |-> r.body, service |-> r.service_name])

\* MergePayloadAttributes: there is a jsonPayload if an attribute needs one; columns win.
Payload(r) ==
  IF r.log_attributes.fields = Nothing THEN {} ELSE {Merge(Message(r), r.log_attributes.fields)}

\* The labels that come from columns of their own.
OwnLabels(r) ==
  Put([service_name        |-> r.service_name,
       service_namespace   |-> r.service_namespace,
       service_instance_id |-> r.service_instance_id])

\* Fault: labels are put after the attributes of the same name.
Labels_AttributesFirst(r) ==
  Merge(Put(Texts(r.log_attributes.labels)), OwnLabels(r))

\* The service's identity, and the attributes that PutStringLabels finds.
Labels(r) == Merge(OwnLabels(r), Put(Texts(r.log_attributes.labels)))

BuildGcloudWriteBody(r) ==
  [log_name        |-> LogName(r),
   type            |-> FirstOf(<<r.resource_type, r.resource_attributes.type, "global">>),
   resource_labels |-> Merge([project_id |-> Project], Put(Texts(r.resource_attributes.labels))),
   timestamp       |-> {FormatRfc3339Nanos(Timestamp(r))},
   received        |-> {},
   severity        |-> Severity(r),
   insert_id       |-> InsertId(r),
   trace           |-> r.trace_id,
   span_id         |-> r.span_id,
   trace_sampled   |-> IF r.trace_id = << >> THEN {} ELSE {IF Sampled(r) THEN 1 ELSE 0},
   labels          |-> Labels(r),
   json_payload    |-> Payload(r),
   text_payload    |-> IF Payload(r) = {} THEN r.body ELSE NULL,
   proto_payload   |-> FALSE,
   context         |-> Nothing]

-----------------------------------------------------------------------------
(* The reader: MapEntry                                                    *)

SeverityToNumber(severity) ==
  CASE severity = "DEBUG"     -> 5
    [] severity = "INFO"      -> 9
    [] severity = "NOTICE"    -> 10
    [] severity = "WARNING"   -> 13
    [] severity = "ERROR"     -> 17
    [] severity = "CRITICAL"  -> 21
    [] severity = "ALERT"     -> 22
    [] severity = "EMERGENCY" -> 24
    [] OTHER                  -> 0

\* A time that is left out, or that ParseRfc3339ToNanos refuses, is NULL.
TimestampValue(timestamp) ==
  {[unit |-> "nanos", n |-> n] : n \in UNION {ParseRfc3339ToNanos(text) : text \in timestamp}}

\* A trace is the sequence of its segments: the id follows "traces", or is all there is.
ExtractTraceId(trace) ==
  LET markers == {i \in 2..Len(trace) - 1 : trace[i] = "traces"}
  IN  IF markers # {} THEN SubSeq(trace, Min(markers) + 1, Len(trace))
      ELSE IF Len(trace) = 1 THEN trace ELSE << >>

\* PutLabels.  No two labels of an entry have the same snake case.
SnakeLabels(labels) ==
  LET texts == Put(Texts(labels)) IN
  [k \in {SnakeCase[l] : l \in DOMAIN texts} |-> texts[CHOOSE l \in DOMAIN texts : SnakeCase[l] = k]]

ServiceName(e, payload) ==
  LookupStr(e.resource_labels, <<"service_name">>,
    LookupStr(payload, <<"service", "service_name", "serviceName", "service.name">>,
      LookupStr(e.labels, <<"service_name", "service">>,
        LookupStr(e.resource_labels, <<"function_name", "container_name", "job">>, NULL))))

ServiceNamespace(e) ==
  LookupStr(e.resource_labels, <<"namespace_name", "namespace_id">>,
    LookupStr(e.labels, <<"service_namespace">>, NULL))

ServiceInstance(e) ==
  LookupStr(e.resource_labels, <<"instance_id", "pod_name", "revision_name", "task_id">>,
    LookupStr(e.labels, <<"service_instance_id">>, NULL))

\* The text of a payload is one text, "{..}": which payload it is of is not told apart.
BuildBody(e) ==
  CASE e.text_payload # NULL                            -> e.text_payload
    [] e.text_payload = NULL /\ e.json_payload # {}     ->
         LookupStr(CHOOSE p \in e.json_payload : TRUE, <<"message", "msg">>, "{..}")
    [] e.text_payload = NULL /\ e.json_payload = {} /\ e.proto_payload -> "{..}"
    [] OTHER                                          -> NULL

\* BuildLogAttributes: what comes from httpRequest, sourceLocation and operation, the
\* entry's context, claims its keys before the payload.
LogAttributes(e, payload) ==
  [uid |-> e.insert_id, labels |-> SnakeLabels(e.labels), fields |-> Merge(e.context, payload)]

\* PutLogNameAttributes: the kind and the name of the parent, and the log id.
Parents == {"gcp.project", "gcp.organization", "gcp.billing_account", "gcp.folder"}

LogNameAttributes(name) ==
  IF name.parent[1] \in Parents /\ name.id # << >> THEN name
  ELSE [parent |-> << >>, id |-> << >>]

\* BuildResourceAttributes.
ResourceAttributes(e) ==
  [parent |-> LogNameAttributes(e.log_name).parent,
   log_id |-> LogNameAttributes(e.log_name).id,
   type   |-> e.type,
   labels |-> SnakeLabels(e.resource_labels)]

MapEntry(e) ==
  LET payload == IF e.json_payload = {} THEN Nothing ELSE CHOOSE p \in e.json_payload : TRUE IN
  [time                |-> TimestampValue(e.timestamp),
   observed_time       |-> IF TimestampValue(e.received) # {} THEN TimestampValue(e.received)
                           ELSE TimestampValue(e.timestamp),
   trace_id            |-> ExtractTraceId(e.trace),
   span_id             |-> e.span_id,
   service_name        |-> ServiceName(e, payload),
   service_namespace   |-> ServiceNamespace(e),
   service_instance_id |-> ServiceInstance(e),
   severity_text       |-> e.severity,
   severity_number     |-> SeverityToNumber(e.severity),
   body                |-> BuildBody(e),
   resource_attributes |-> ResourceAttributes(e),
   log_attributes      |-> LogAttributes(e, payload),
   flags               |-> e.trace_sampled,
   trace_sampled       |-> {},
   insert_id           |-> NULL,
   log_name            |-> {},
   log_id              |-> << >>,
   resource_type       |-> NULL]

-----------------------------------------------------------------------------
(* The rows and entries that are looked at                                 *)

AtMostOne(values) == \A x, y \in values : x = y

IsObject(o) ==
  /\ o = [k \in DOMAIN o |-> o[k]]
  /\ \A k \in DOMAIN o : o[k] \in STRING \cup {NotText}

IsLabels(o) == IsObject(o) /\ DOMAIN o \subseteq DOMAIN SnakeCase

\* No two of some labels have the same snake case.
OneSpelling(keys) == \A k, l \in keys : SnakeCase[k] = SnakeCase[l] => k = l

IsTimeColumn(column) ==
  /\ AtMostOne(column)
  /\ \A t \in column : t \in [unit : {"nanos"}, n : Nanos] \/ t \in [unit : {"millis"}, n : Int]

\* A name of a trace names one trace.
IsTrace(trace) ==
  /\ trace \in Seq(STRING)
  /\ AtMostOne({i \in 2..Len(trace) - 1 : trace[i] = "traces"})

\* A log name names a log: the service refuses one without an id.
IsRow(r) ==
  /\ IsTimeColumn(r.time) /\ IsTimeColumn(r.observed_time)
  /\ IsTrace(r.trace_id)
  /\ {r.service_name, r.service_namespace, r.service_instance_id, r.body} \subseteq STRING
  /\ AtMostOne(r.log_name) /\ \A name \in r.log_name : name.id \in Seq(STRING) \ {<< >>}
  /\ r.log_id \in Seq(STRING) /\ r.resource_attributes.log_id \in Seq(STRING)
  /\ IsObject(r.log_attributes.fields)
  /\ IsLabels(r.log_attributes.labels) /\ IsLabels(r.resource_attributes.labels)
  /\ OneSpelling(DOMAIN Labels(r))
  /\ OneSpelling({"project_id"} \cup DOMAIN Put(Texts(r.resource_attributes.labels)))

\* A time is given in a text that ParseRfc3339ToNanos does not let overflow.
IsEntry(e) ==
  /\ \A text \in e.timestamp \cup e.received :
       /\ text \in [seconds : Int, fraction : 0..NanosPerSecond - 1]
       /\ ParseRfc3339ToNanos(text) \subseteq Nanos
  /\ AtMostOne(e.timestamp) /\ AtMostOne(e.received)
  /\ IsTrace(e.trace)
  /\ e.text_payload \in STRING
  /\ AtMostOne(e.json_payload) /\ \A payload \in e.json_payload : IsObject(payload)
  /\ IsObject(e.context)
  /\ IsLabels(e.labels) /\ IsLabels(e.resource_labels)
  /\ e.log_name.id \in Seq(STRING)

ASSUME RowsAssumption    == \A r \in Rows : IsRow(r)
ASSUME EntriesAssumption == \A e \in Entries : IsEntry(e)

-----------------------------------------------------------------------------
(* A row is sent, stored, read, and sent again.                            *)

\* Nothing was sent yet: entry and sent are not looked at.
Init ==
  /\ phase = "given"
  /\ copies = 0
  /\ \E r \in Rows \cup {MapEntry(e) : e \in Entries} :
       /\ row = r
       /\ sent = r
       /\ entry = BuildGcloudWriteBody(r)

\* The service keeps an entry as it is written and remarks when it received it.
Stored(e) == [e EXCEPT !.received = {FormatRfc3339Nanos(Now)}]

Send ==
  /\ phase \in {"given", "read"}
  /\ copies < MaxCopies
  /\ sent' = row
  /\ IF Refused(row) THEN /\ phase' = "refused"
                         /\ UNCHANGED <<copies, entry>>
     ELSE /\ phase' = "stored"
          /\ copies' = copies + 1
          /\ entry' = Stored(BuildGcloudWriteBody(row))
  /\ UNCHANGED row

Read ==
  /\ phase = "stored"
  /\ phase' = "read"
  /\ row' = MapEntry(entry)
  /\ UNCHANGED <<copies, entry, sent>>

Next == Send \/ Read

Spec == Init /\ [][Next]_vars

-----------------------------------------------------------------------------
(* Properties                                                              *)

\* Who wrote it: a name given in a column of its own is read back, unless a label of the
\* monitored resource says otherwise, which is read first.
ServiceReadsBack ==
  LET says(keys) == \E k \in keys : k \in DOMAIN ResourceAttributes(entry).labels IN
  /\ sent.service_name # NULL /\ ~says({"service_name"}) => row.service_name = sent.service_name
  /\ sent.service_namespace # NULL /\ ~says({"namespace_name", "namespace_id"}) =>
       row.service_namespace = sent.service_namespace
  /\ sent.service_instance_id # NULL
       /\ ~says({"instance_id", "pod_name", "revision_name", "task_id"}) =>
       row.service_instance_id = sent.service_instance_id

\* What it says: the body, which becomes a text or the message of a payload.
BodyReadsBack ==
  \/ row.body = sent.body
  \/ sent.body = NULL /\ sent.log_attributes.fields # Nothing

\* When: to the nanosecond, before and after the epoch.
TimeReadsBack ==
  \A n \in ReadTimestampNanos(sent.time) : Readable(n) => row.time = {[unit |-> "nanos", n |-> n]}

\* The trace and whether it was sampled.
TraceReadsBack ==
  /\ Len(sent.trace_id) = 1 => row.trace_id = sent.trace_id
  /\ row.span_id = sent.span_id
  /\ sent.trace_id # << >> => row.flags = {IF Sampled(sent) THEN 1 ELSE 0}

\* The bands of OTLP severities: above 0 known, from 17 errors, from 21 fatal.
Band(n) == {m \in {1, 17, 21} : m <= n}

\* How bad: a name the service knows is kept, a number keeps its band.
SeverityReadsBack ==
  /\ sent.severity_text \in Names => row.severity_text = sent.severity_text
  /\ NormalizeSeverity(sent.severity_text) = NULL /\ sent.severity_number \in 0..24 =>
       Band(row.severity_number) = Band(sent.severity_number)

\* Every attribute: labels under their snake case unless a column has that name, and
\* fields with their values, of any type, unless the body or the service has that name.
AttributesReadBack ==
  LET labels   == Put(Texts(sent.log_attributes.labels))
      fields   == sent.log_attributes.fields
      resource == Put(Texts(sent.resource_attributes.labels))
  IN  /\ \A k \in DOMAIN labels :
           \/ k \in {"service_name", "service_namespace", "service_instance_id"} /\ sent[k] # NULL
           \/ /\ SnakeCase[k] \in DOMAIN row.log_attributes.labels
              /\ row.log_attributes.labels[SnakeCase[k]] = labels[k]
      /\ \A k \in DOMAIN fields :
           \/ k = "message" /\ sent.body # NULL
           \/ k = "service" /\ sent.service_name # NULL
           \/ k \in DOMAIN row.log_attributes.fields /\ row.log_attributes.fields[k] = fields[k]
      /\ \A k \in DOMAIN resource \ {"project_id"} :
           /\ SnakeCase[k] \in DOMAIN row.resource_attributes.labels
           /\ row.resource_attributes.labels[SnakeCase[k]] = resource[k]

\* The monitored resource and the log keep their names.
SourceReadsBack ==
  /\ row.resource_attributes.parent = <<"gcp.project", Project>>
  /\ row.resource_attributes.type =
       FirstOf(<<sent.resource_type, sent.resource_attributes.type, "global">>)
  /\ sent.log_name = {} => row.resource_attributes.log_id = EncodeLogId(LogId(sent))

\* A row that was sent is read back as it was, by two halves of the code that were
\* written apart, over every column and attribute that both know (send_logs.cpp and
\* logs_table.cpp; test/e2e/run_e2e.sh:287 tries it with one row).
RowReadsBack ==
  phase = "read" =>
    /\ ServiceReadsBack
    /\ BodyReadsBack
    /\ TimeReadsBack
    /\ TraceReadsBack
    /\ SeverityReadsBack
    /\ AttributesReadBack
    /\ SourceReadsBack

\* Copying settles: what the reader prefers (a label of the resource, a key of the
\* payload) and what the sender prefers (a column) agree after three copies, so that a
\* fourth changes nothing.
CopiesSettle == phase = "read" /\ copies > 3 => row = sent
=============================================================================
