----------------------------- MODULE MCLogEntry -----------------------------
(***************************************************************************)
(* LogEntry with rows that vary a group of columns at a time around two    *)
(* rows, an empty one and a full one, and with entries as Cloud Run, GKE,  *)
(* App Engine, audit logs and structured loggers write them.  No two       *)
(* labels of a row or an entry have the same snake case.                   *)
(***************************************************************************)
EXTENDS LogEntry

MCSnakeCase ==
  ("fooBar" :> "foo_bar" @@ "foo_bar" :> "foo_bar" @@ "zone" :> "zone"
   @@ "project_id" :> "project_id" @@ "service" :> "service"
   @@ "service_name" :> "service_name" @@ "serviceName" :> "service_name"
   @@ "service_namespace" :> "service_namespace" @@ "service_instance_id" :> "service_instance_id"
   @@ "namespace_name" :> "namespace_name" @@ "pod_name" :> "pod_name"
   @@ "revision_name" :> "revision_name" @@ "container_name" :> "container_name")

MCMinNanos == -17

Object(keys, values) == UNION {[ks -> values] : ks \in SUBSET keys}

Millis(n)     == {[unit |-> "millis", n |-> n]}
NanosTime(n)  == {[unit |-> "nanos", n |-> n]}

-----------------------------------------------------------------------------
(* Rows                                                                    *)

Empty ==
  [time |-> {}, observed_time |-> {}, trace_id |-> << >>, span_id |-> "",
   service_name |-> "", service_namespace |-> "", service_instance_id |-> "",
   severity_text |-> "", severity_number |-> 0, body |-> "",
   resource_attributes |-> [parent |-> << >>, log_id |-> << >>, type |-> "", labels |-> Nothing],
   log_attributes |-> [uid |-> "", labels |-> Nothing, fields |-> Nothing],
   flags |-> {}, trace_sampled |-> {}, insert_id |-> "", log_name |-> {}, log_id |-> << >>,
   resource_type |-> ""]

Full ==
  [Empty EXCEPT !.time = NanosTime(-3), !.trace_id = <<"t">>, !.span_id = "s",
                !.service_name = "a", !.severity_text = "ERROR", !.body = "b",
                !.log_attributes.fields = ("http.method" :> "GET")]

Times == {{}} \cup {NanosTime(n) : n \in Nanos} \cup {Millis(n) : n \in -6..6}

TimeRows ==
  {[Full EXCEPT !.time = t, !.observed_time = o] : t \in Times, o \in {{}, NanosTime(-5)}}

TraceRows ==
  {[Full EXCEPT !.trace_id = t, !.span_id = s, !.flags = f, !.trace_sampled = m] :
     t \in {<< >>, <<"t">>, <<"projects", "p", "traces", "t">>}, s \in {"", "s"},
     f \in {{}, {0}, {1}, {2}, {3}}, m \in {{}, {0}, {1}}}

SeverityRows ==
  {[Full EXCEPT !.severity_text = t, !.severity_number = n] :
     t \in Names \cup {"", "TRACE", "WARN", "FATAL", "PANIC", "LOUD"}, n \in -1..25}

\* A label serviceName is not given beside a service name, whose own label it would meet.
ServiceRowsOf(name, labels) ==
  {[Empty EXCEPT !.body = b, !.service_name = name, !.service_namespace = space,
                 !.service_instance_id = instance, !.log_attributes.labels = l,
                 !.log_attributes.fields = f, !.resource_attributes.labels = r] :
     b \in {"", "b"}, space \in {"", "n"}, instance \in {"", "i"}, l \in labels,
     f \in Object({"service"}, {"y", "", NotText}),
     r \in Object({"service_name", "namespace_name", "revision_name"}, {"z"})}

ServiceRows ==
  ServiceRowsOf("a", Object({"service_name", "service_instance_id"}, {"x"}))
    \cup ServiceRowsOf("", Object({"service_name", "service_instance_id"}, {"x"}) \cup {"serviceName" :> "x"})

AttributeRows ==
  {[base EXCEPT !.body = b, !.service_name = name, !.log_attributes.labels = l, !.log_attributes.fields = f,
                !.log_attributes.uid = u, !.insert_id = i] :
     base \in {Empty, Full}, b \in {"", "b"}, name \in {"", "a"},
     l \in Object({"fooBar", "zone"}, {"x", "", NotText}),
     f \in Object({"message", "k"}, {"y", "", NotText}), u \in {"", "u"}, i \in {"", "v"}}

SourceRows ==
  {[Full EXCEPT !.resource_type = t, !.resource_attributes.type = a, !.log_id = i,
                !.resource_attributes.log_id = j, !.log_name = name, !.resource_attributes.labels = l] :
     t \in {"", "gce_instance"}, a \in {"", "k8s_pod"},
     i \in {<< >>, <<"a">>, <<"a", "/", "a">>, <<"a", "?">>, <<"a", "/", "/", "/", "/">>,
            [n \in 1..8 |-> "a"], [n \in 1..9 |-> "a"]},
     j \in {<< >>, <<"c">>},
     name \in {{}, {[parent |-> <<"gcp.project", "p">>, id |-> <<"a">>]},
                   {[parent |-> <<"gcp.project", "q">>, id |-> <<"a">>]}},
     l \in Object({"project_id", "fooBar"}, {"z"})}

MCRows == TimeRows \cup TraceRows \cup SeverityRows \cup ServiceRows \cup AttributeRows \cup SourceRows

-----------------------------------------------------------------------------
(* Entries of other writers                                                *)

Text(n) == {FormatRfc3339Nanos(n)}

Plain ==
  [log_name |-> [parent |-> <<"gcp.project", "q">>, id |-> <<"c">>], type |-> "cloud_run_revision",
   resource_labels |-> Nothing, timestamp |-> Text(5), received |-> Text(6), severity |-> "INFO",
   insert_id |-> "u", trace |-> <<"projects", "q", "traces", "t">>, span_id |-> "s",
   trace_sampled |-> {1}, labels |-> Nothing, json_payload |-> {}, text_payload |-> "b",
   proto_payload |-> FALSE, context |-> Nothing]

Payloads ==
  Object({"message", "msg", "service", "k"}, {"y", "", NotText})

PayloadEntries ==
  {[Plain EXCEPT !.json_payload = {p}, !.text_payload = "", !.labels = l, !.context = c, !.resource_labels = r] :
     p \in Payloads, l \in Object({"service"}, {"x"}), c \in {Nothing, "http.method" :> "GET", "k" :> "C"},
     r \in Object({"service_name", "container_name"}, {"z"})}

LabelEntries ==
  {[Plain EXCEPT !.labels = l, !.resource_labels = r] :
     l \in Object({"fooBar", "service_name", "service_namespace"}, {"x", ""}),
     r \in Object({"project_id", "service_name", "pod_name", "namespace_name"}, {"z", ""})}

SourceEntries ==
  {[Plain EXCEPT !.log_name = [parent |-> p, id |-> i], !.trace = t, !.trace_sampled = f, !.timestamp = n,
                 !.received = o, !.severity = v, !.proto_payload = b, !.text_payload = "", !.span_id = ""] :
     p \in {<<"gcp.organization", "o">>, <<"gcp.folder", "f">>, <<"other", "x">>},
     i \in {<< >>, <<"a", "%2F", "a">>, <<"?">>, <<"a", "%2F", "%2F">>},
     t \in {<< >>, <<"t">>, <<"a", "t">>}, f \in {{}, {0}, {1}},
     n \in {{}, Text(-17), Text(-9)}, o \in {{}, Text(2)}, v \in {"", "DEFAULT", "NOTICE"},
     b \in BOOLEAN}

MCEntries == PayloadEntries \cup LabelEntries \cup SourceEntries
=============================================================================
