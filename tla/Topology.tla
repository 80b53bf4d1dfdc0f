------------------------------ MODULE Topology ------------------------------
(***************************************************************************)
(* The decoding of an App Topology response: the one message of a unary    *)
(* gRPC answer, the part of protobuf that it uses, and the join of its     *)
(* edges with its nodes to rows of the service map.                        *)
(*                                                                         *)
(* A body is a sequence of bytes.  A message nested in another is read     *)
(* before the rest of the outer one; the readers that are open form a      *)
(* stack.  A position is the number of bytes before it.  Texts are         *)
(* sequences of bytes as well.                                             *)
(***************************************************************************)
EXTENDS Integers, Sequences, SequencesExt

CONSTANTS
  Responses,        \* the answers of the service: a body, whether it is whole,
                    \* the graph that a whole one stands for, and where one
                    \* that is not whole breaks off
  VarintBytes,      \* bytes of the longest varint, 10
  VarintModulus,    \* 2^64
  NumberModulus,    \* 2^32
  NameKeys,         \* the properties that name a service, in order
  TypeKeys,         \* its type
  EnvironmentKeys,  \* and its environment
  GenericLabels,    \* "Base/Resource" and "Base/DiscoveredService"
  BasePrefix,       \* "Base/"
  Separators,       \* the bytes of '/' and ':'
  SendsTraffic,     \* "Observability/SENDS_TRAFFIC"
  SendsTrafficTo    \* "sends traffic to"

Byte == 0..255

ASSUME ResponsesAssumption == \A r \in Responses : r.body \in Seq(Byte) /\ r.whole \in BOOLEAN
ASSUME WidthsAssumption == /\ VarintBytes \in Nat \ {0}
                           /\ VarintModulus \in Nat \ {0} /\ NumberModulus \in Nat \ {0}
ASSUME KeysAssumption == /\ {NameKeys, TypeKeys, EnvironmentKeys} \subseteq Seq(Seq(Byte))
                         /\ BasePrefix \in Seq(Byte)

VARIABLES
  response,  \* the answer of the service
  pc,        \* "unframe", "read", "done" or "refused"
  offset,    \* how far the frames have been read
  messages,  \* the ends of the messages found in them, none or one
  stack,     \* the open readers
  nodes,     \* what has been read
  edges,
  rows       \* the dependencies

decodeVars == <<response, pc, offset, messages, stack, nodes, edges, rows>>

body == response.body

-----------------------------------------------------------------------------
(* Writing                                                                 *)

\* The shortest varint of a value.
PutVarint(value) ==
  LET digits == Min({n \in 1..VarintBytes : value < 128^n})
  IN  [i \in 1..digits |-> ((value \div 128^(i-1)) % 128) + (IF i < digits THEN 128 ELSE 0)]

PutTag(field, wire_type) == PutVarint(8 * field + wire_type)
PutBytes(field, value)   == PutTag(field, 2) \o PutVarint(Len(value)) \o value
PutEnum(field, value)    == PutTag(field, 0) \o PutVarint(value)

FrameGrpcMessage(message) ==
  <<0, Len(message) \div 256^3, (Len(message) \div 256^2) % 256, (Len(message) \div 256) % 256,
    Len(message) % 256>> \o message

-----------------------------------------------------------------------------
(* Frames                                                                  *)

Remaining(at)   == Len(body) - at
FrameFlags(at)  == body[at + 1]
FrameLength(at) == ((body[at + 2] * 256 + body[at + 3]) * 256 + body[at + 4]) * 256 + body[at + 5]
FrameEnd(at)    == at + 5 + FrameLength(at)

FrameIsWhole(at) == Remaining(at) >= 5 /\ FrameLength(at) <= Remaining(at) - 5
Compressed(at)   == FrameFlags(at) % 2 = 1
Trailer(at)      == FrameFlags(at) >= 128

\* A frame that is cut short or compressed, or a second message.
RefuseFrame ==
  /\ pc = "unframe" /\ Remaining(offset) > 0
  /\ FrameIsWhole(offset) => Compressed(offset) \/ (~Trailer(offset) /\ messages # << >>)
  /\ pc' = "refused"
  /\ UNCHANGED <<response, offset, messages, stack, nodes, edges, rows>>

\* Fault: the header of a trailer is not stepped over.
SkipTrailer_Header ==
  /\ pc = "unframe" /\ Remaining(offset) > 0
  /\ FrameIsWhole(offset) /\ ~Compressed(offset) /\ Trailer(offset)
  /\ offset' = offset + FrameLength(offset)
  /\ UNCHANGED <<response, pc, messages, stack, nodes, edges, rows>>

SkipTrailer ==
  /\ pc = "unframe" /\ Remaining(offset) > 0
  /\ FrameIsWhole(offset) /\ ~Compressed(offset) /\ Trailer(offset)
  /\ offset' = FrameEnd(offset)
  /\ UNCHANGED <<response, pc, messages, stack, nodes, edges, rows>>

TakeMessage ==
  /\ pc = "unframe" /\ Remaining(offset) > 0
  /\ FrameIsWhole(offset) /\ ~Compressed(offset) /\ ~Trailer(offset) /\ messages = << >>
  /\ messages' = <<[from |-> offset + 5, to |-> FrameEnd(offset)]>>
  /\ offset' = FrameEnd(offset)
  /\ UNCHANGED <<response, pc, stack, nodes, edges, rows>>

-----------------------------------------------------------------------------
(* ProtoReader                                                             *)

\* The lengths a varint at position at may have before position end: none if it
\* is cut short or too long.
VarintLengths(at, end) ==
  {n \in 1..VarintBytes : /\ at + n <= end
                          /\ body[at + n] < 128
                          /\ \A m \in 1..n-1 : body[at + m] >= 128}

VarintValue(bytes) == FoldRight(LAMBDA byte, rest : (byte % 128) + 128 * rest, bytes, 0) % VarintModulus

\* ReadVarint.
Varints(at, end) ==
  {[value |-> VarintValue(SubSeq(body, at + 1, at + n)), next |-> at + n] : n \in VarintLengths(at, end)}

FieldNumber(tag) == (tag.value \div 8) % NumberModulus
WireType(tag)    == tag.value % 8

\* Fault: the field may reach past the end of its message.
Take_Past(tag, at, count, end) ==
  IF count \in 0..Len(body) - at
  THEN {[number |-> FieldNumber(tag), wire_type |-> WireType(tag), from |-> at, to |-> at + count, integer |-> 0]}
  ELSE {}

\* Fault: a field that is cut short ends with its message.
Take_Clipped(tag, at, count, end) ==
  {[number |-> FieldNumber(tag), wire_type |-> WireType(tag), from |-> at,
    to |-> IF count \in 0..end - at THEN at + count ELSE end, integer |-> 0]}

\* Take, of a field with a payload of count bytes.
Take(tag, at, count, end) ==
  IF count \in 0..end - at
  THEN {[number |-> FieldNumber(tag), wire_type |-> WireType(tag), from |-> at, to |-> at + count, integer |-> 0]}
  ELSE {}

\* ProtoReader::Next: the field at position at of a message that ends at end.
\* There is none if the message is malformed.
Fields(at, end) ==
  UNION {
    CASE FieldNumber(tag) = 0 -> {}
      [] FieldNumber(tag) # 0 /\ WireType(tag) = 0 ->
           {[number |-> FieldNumber(tag), wire_type |-> 0, from |-> integer.next, to |-> integer.next,
             integer |-> integer.value] : integer \in Varints(tag.next, end)}
      [] FieldNumber(tag) # 0 /\ WireType(tag) = 1 -> Take(tag, tag.next, 8, end)
      [] FieldNumber(tag) # 0 /\ WireType(tag) = 2 ->
           UNION {Take(tag, size.next, size.value, end) : size \in Varints(tag.next, end)}
      [] FieldNumber(tag) # 0 /\ WireType(tag) = 5 -> Take(tag, tag.next, 4, end)
      [] OTHER -> {}
    : tag \in Varints(at, end)}

FieldString(field) == SubSeq(body, field.from + 1, field.to)

-----------------------------------------------------------------------------
(* Messages                                                                *)

\* The fields that hold a message: <<the message, the number, what it holds>>.
Nested ==
  {<<"response", 1, "topology">>, <<"topology", 1, "node">>, <<"topology", 2, "edge">>,
   <<"node", 3, "struct">>, <<"edge", 5, "struct">>, <<"edge", 9, "label">>,
   <<"struct", 1, "entry">>, <<"entry", 2, "value">>,
   <<"value", 5, "struct">>, <<"value", 6, "list">>, <<"list", 1, "value">>}

Opened(message, field) ==
  {nested \in Nested : nested[1] = message /\ nested[2] = field.number /\ field.wire_type = 2}

\* ProtoJsonValue: text is that of a string, a number or a Boolean.
NoValue == [kind |-> "NIL", text |-> << >>, object |-> << >>, array |-> << >>]

\* What a reader of a message has collected when it is opened.
Blank(message) ==
  CASE message = "node"  -> [id |-> << >>, labels |-> << >>, properties |-> << >>]
    [] message = "edge"  -> [source_id |-> << >>, target_id |-> << >>, type |-> << >>,
                             labels |-> << >>, properties |-> << >>]
    [] message = "entry" -> [key |-> << >>, value |-> NoValue]
    [] message = "value" -> NoValue
    [] OTHER             -> << >>

Reader(message, from, to) == [message |-> message, cursor |-> from, end |-> to, value |-> Blank(message)]

\* A field that holds no message.
Absorb(message, value, field) ==
  LET text == FieldString(field)
      is(number, wire_type) == field.number = number /\ field.wire_type = wire_type
  IN  CASE message = "node"  /\ is(4, 2) -> [value EXCEPT !.id = text]
        [] message = "node"  /\ is(5, 2) -> [value EXCEPT !.labels = Append(@, text)]
        [] message = "edge"  /\ is(6, 2) -> [value EXCEPT !.source_id = text]
        [] message = "edge"  /\ is(7, 2) -> [value EXCEPT !.target_id = text]
        [] message = "edge"  /\ is(8, 2) -> [value EXCEPT !.type = text]
        [] message = "label" /\ is(1, 2) -> Append(value, text)
        [] message = "entry" /\ is(1, 2) -> [value EXCEPT !.key = text]
        [] message = "value" /\ field.number = 1 -> [value EXCEPT !.kind = "NIL"]
        [] message = "value" /\ is(2, 1) -> [value EXCEPT !.kind = "NUMBER", !.text = text]
        [] message = "value" /\ is(3, 2) -> [value EXCEPT !.kind = "STRING", !.text = text]
        [] message = "value" /\ is(4, 0) ->
             [value EXCEPT !.kind = "BOOLEAN", !.text = IF field.integer = 0 THEN <<0>> ELSE <<1>>]
        [] OTHER -> value

\* Of a value only what its kind says counts.
Kept(value) ==
  [kind |-> value.kind,
   content |-> CASE value.kind = "NIL"    -> << >>
                 [] value.kind = "OBJECT" -> value.object
                 [] value.kind = "ARRAY"  -> value.array
                 [] OTHER                 -> value.text]

\* A text goes into JSON by its c_str: up to the first NUL.
CString(text) ==
  LET nuls == {i \in DOMAIN text : text[i] = 0}
  IN  IF nuls = {} THEN text ELSE SubSeq(text, 1, Min(nuls) - 1)

\* The bytes of an infinite double, or of none: all bits of the exponent are set.
IsNotFinite(bytes) == bytes[8] % 128 = 127 /\ bytes[7] >= 240

\* JSON has no such number, and the writer fails on a document that holds one.
Unwritable == [kind |-> "UNWRITABLE", content |-> << >>]

\* ToJson, of a value whose members or items are JSON already.
ToJson(told) ==
  CASE told.kind = "STRING" -> [told EXCEPT !.content = CString(@)]
    [] told.kind = "NUMBER" /\ IsNotFinite(told.content) -> Unwritable
    [] told.kind = "OBJECT" /\ (\E i \in DOMAIN told.content : told.content[i].value = Unwritable) -> Unwritable
    [] told.kind = "ARRAY"  /\ (\E i \in DOMAIN told.content : told.content[i] = Unwritable) -> Unwritable
    [] OTHER -> told

Members(properties) ==
  [p \in DOMAIN properties |-> [key |-> CString(properties[p].key), value |-> ToJson(properties[p].value)]]

\* A field that holds a message, which has been read.
Adopt(message, value, child) ==
  CASE child.message = "struct" /\ message \in {"node", "edge"} -> [value EXCEPT !.properties = child.value]
    [] child.message = "label"  -> [value EXCEPT !.labels = @ \o child.value]
    [] child.message = "struct" /\ message = "value" -> [value EXCEPT !.kind = "OBJECT", !.object = Members(child.value)]
    [] child.message = "entry"  ->
         IF child.value.key = << >> THEN value
         ELSE Append(value, [key |-> child.value.key, value |-> Kept(child.value.value)])
    [] child.message = "value"  /\ message = "entry" -> [value EXCEPT !.value = child.value]
    [] child.message = "value"  /\ message = "list"  -> Append(value, ToJson(Kept(child.value)))
    [] child.message = "list"   -> [value EXCEPT !.kind = "ARRAY", !.array = @ \o child.value]
    [] OTHER -> value

-----------------------------------------------------------------------------
(* Nodes, edges and rows                                                   *)

\* The first of the keys that a property of type string has, and the first such
\* property.
FindStringProperty(properties, keys) ==
  LET found(k) == {p \in DOMAIN properties : properties[p].key = keys[k] /\ properties[p].value.kind = "STRING"}
      known    == {k \in DOMAIN keys : found(k) # {}}
  IN  IF known = {} THEN << >> ELSE properties[Min(found(Min(known)))].value.content

\* All of an id that ends with a separator.
LastResourceSegment(id) ==
  LET start == Max({0} \cup {i \in DOMAIN id : id[i] \in Separators})
  IN  IF start < Len(id) THEN SubSeq(id, start + 1, Len(id)) ELSE id

ConcreteType(labels, resource_type) ==
  LET concrete == {i \in DOMAIN labels : labels[i] \notin GenericLabels}
      label    == labels[Max(concrete)]
  IN  IF concrete = {} THEN resource_type
      ELSE IF IsPrefix(BasePrefix, label) THEN SubSeq(label, Len(BasePrefix) + 1, Len(label)) ELSE label

\* The members of the JSON object.  One without members is NULL, and so is one that
\* cannot be written.
NoAttributes == [id |-> << >>, labels |-> << >>, properties |-> << >>]

AttributesJson(properties, id, labels) ==
  LET members == Members(properties) IN
  IF \E p \in DOMAIN members : members[p].value = Unwritable THEN NoAttributes
  ELSE [id         |-> CString(id),
        labels     |-> [i \in DOMAIN labels |-> CString(labels[i])],
        properties |-> members]

\* The end of ParseNode.
Node(value) ==
  LET name == FindStringProperty(value.properties, NameKeys) IN
  [id           |-> value.id,
   service_name |-> IF name = << >> THEN LastResourceSegment(value.id) ELSE name,
   type         |-> ConcreteType(value.labels, FindStringProperty(value.properties, TypeKeys)),
   environment  |-> FindStringProperty(value.properties, EnvironmentKeys),
   attributes   |-> AttributesJson(value.properties, value.id, value.labels)]

\* Fault: the first node with an id is kept.
NodeById_First(id) ==
  LET known == {i \in DOMAIN nodes : nodes[i].id = id /\ id # << >>} IN
  IF known # {} THEN nodes[Min(known)]
  ELSE [id |-> id, service_name |-> LastResourceSegment(id), type |-> << >>, environment |-> << >>,
        attributes |-> NoAttributes]

\* node_by_id, and what stands for a node that is not there.
NodeById(id) ==
  LET known == {i \in DOMAIN nodes : nodes[i].id = id /\ id # << >>} IN
  IF known # {} THEN nodes[Max(known)]
  ELSE [id |-> id, service_name |-> LastResourceSegment(id), type |-> << >>, environment |-> << >>,
        attributes |-> NoAttributes]

Dependency(edge) ==
  LET source == NodeById(edge.source_id)
      target == NodeById(edge.target_id)
  IN  [source_service    |-> source.service_name,
       target_service    |-> target.service_name,
       source_type       |-> source.type,
       target_type       |-> target.type,
       edge_type         |-> IF edge.type = SendsTraffic THEN SendsTrafficTo ELSE edge.type,
       environment       |-> IF source.environment = << >> THEN target.environment ELSE source.environment,
       source_attributes |-> source.attributes,
       target_attributes |-> target.attributes,
       edge_attributes   |-> AttributesJson(edge.properties, << >>, edge.labels)]

-----------------------------------------------------------------------------
(* The steps                                                               *)

DecodeInit ==
  /\ response \in Responses
  /\ pc = "unframe" /\ offset = 0 /\ messages = << >>
  /\ stack = << >> /\ nodes = << >> /\ edges = << >> /\ rows = << >>

\* The end of UnframeGrpcMessage.
EndOfFrames ==
  /\ pc = "unframe" /\ Remaining(offset) = 0
  /\ IF messages = << >>
     THEN /\ pc' = "refused"
          /\ UNCHANGED stack
     ELSE /\ pc' = "read"
          /\ stack' = <<Reader("response", messages[1].from, messages[1].to)>>
  /\ UNCHANGED <<response, offset, messages, nodes, edges, rows>>

Top   == Last(stack)
Below == Front(stack)

Malformed ==
  /\ pc = "read" /\ Top.cursor # Top.end
  /\ Fields(Top.cursor, Top.end) = {}
  /\ pc' = "refused"
  /\ UNCHANGED <<response, offset, messages, stack, nodes, edges, rows>>

\* The field is passed before what it holds is read.
ReadField ==
  /\ pc = "read" /\ Top.cursor # Top.end
  /\ \E field \in Fields(Top.cursor, Top.end) :
       LET passed == [Top EXCEPT !.cursor = field.to,
                                 !.value = Absorb(Top.message, Top.value, field)]
           inner  == Opened(Top.message, field)
       IN  stack' = IF inner = {} THEN Append(Below, passed)
                    ELSE Append(Append(Below, passed),
                                Reader((CHOOSE nested \in inner : TRUE)[3], field.from, field.to))
  /\ UNCHANGED <<response, pc, offset, messages, nodes, edges, rows>>

\* A message inside another one has been read.
CloseMessage ==
  /\ pc = "read" /\ Len(stack) > 1 /\ Top.cursor = Top.end
  /\ LET outer == Last(Below) IN
       stack' = [Below EXCEPT ![Len(Below)] =
                   [outer EXCEPT !.value = Adopt(outer.message, outer.value, Top)]]
  /\ nodes' = IF Top.message = "node" THEN Append(nodes, Node(Top.value)) ELSE nodes
  /\ edges' = IF Top.message = "edge" THEN Append(edges, Top.value) ELSE edges
  /\ UNCHANGED <<response, pc, offset, messages, rows>>

\* The response has been read.
Join ==
  /\ pc = "read" /\ Len(stack) = 1 /\ Top.cursor = Top.end
  /\ pc' = "done"
  /\ rows' = [i \in DOMAIN edges |-> Dependency(edges[i])]
  /\ UNCHANGED <<response, offset, messages, stack, nodes, edges>>

Unframe      == RefuseFrame \/ SkipTrailer \/ TakeMessage \/ EndOfFrames
ReadMessages == Malformed \/ ReadField \/ CloseMessage \/ Join
DecodeNext   == Unframe \/ ReadMessages

\* The thread that called the service decodes what it answered.
DecodeSpec == DecodeInit /\ [][DecodeNext]_decodeVars
FairSpec   == DecodeSpec /\ WF_decodeVars(DecodeNext)

-----------------------------------------------------------------------------
(* What a graph says                                                       *)

\* The text is that of the first key that a property has as a string.
Says(properties, keys, text) ==
  LET strings == {s \in (DOMAIN keys) \X (DOMAIN properties) :
                    properties[s[2]].key = keys[s[1]] /\ properties[s[2]].value.kind = "STRING"}
  IN  IF strings = {} THEN text = << >>
      ELSE \E s \in strings :
             /\ text = properties[s[2]].value.content
             /\ \A t \in strings : s[1] < t[1] \/ (s[1] = t[1] /\ s[2] <= t[2])

\* The text is what follows the last separator, or all of an id that ends there.
IsSegmentOf(text, id) ==
  \/ /\ text # << >> /\ IsSuffix(text, id)
     /\ \A i \in DOMAIN text : text[i] \notin Separators
     /\ Len(text) < Len(id) => id[Len(id) - Len(text)] \in Separators
  \/ /\ text = id
     /\ id # << >> => id[Len(id)] \in Separators

IsNameOf(text, node) ==
  \/ text # << >> /\ Says(node.properties, NameKeys, text)
  \/ Says(node.properties, NameKeys, << >>) /\ IsSegmentOf(text, node.id)

IsTypeOf(text, node) ==
  \/ \E l \in DOMAIN node.labels :
       /\ node.labels[l] \notin GenericLabels
       /\ \A m \in DOMAIN node.labels : m > l => node.labels[m] \in GenericLabels
       /\ \/ node.labels[l] = BasePrefix \o text
          \/ node.labels[l] = text /\ ~IsPrefix(BasePrefix, text)
  \/ /\ \A l \in DOMAIN node.labels : node.labels[l] \in GenericLabels
     /\ Says(node.properties, TypeKeys, text)

\* The node an id means, the last of those that have it, if there is one.
Meant(graph, id) ==
  {n \in DOMAIN graph.nodes :
     /\ id # << >> /\ graph.nodes[n].id = id
     /\ \A m \in DOMAIN graph.nodes : m > n => graph.nodes[m].id # id}

\* One end of a row is what the graph says of the id.
TellsEnd(graph, id, service, type, attributes) ==
  \/ \E n \in Meant(graph, id) :
       LET node == graph.nodes[n] IN
       /\ IsNameOf(service, node)
       /\ IsTypeOf(type, node)
       /\ attributes = AttributesJson(node.properties, node.id, node.labels)
  \/ /\ Meant(graph, id) = {}
     /\ IsSegmentOf(service, id)
     /\ type = << >> /\ attributes = NoAttributes

SaysEnvironment(graph, id, text) ==
  \/ \E n \in Meant(graph, id) : Says(graph.nodes[n].properties, EnvironmentKeys, text)
  \/ Meant(graph, id) = {} /\ text = << >>

\* A graph that a service may encode.
IsSequence(s) == s \in Seq(ToSet(s))

IsNode(node) ==
  /\ node.id \in Seq(Byte) /\ node.labels \in Seq(Seq(Byte))
  /\ IsSequence(node.properties)

IsGraph(graph) ==
  /\ IsSequence(graph.nodes) /\ IsSequence(graph.edges)
  /\ \A n \in DOMAIN graph.nodes : IsNode(graph.nodes[n])
  /\ \A i \in DOMAIN graph.edges : {graph.edges[i].source_id, graph.edges[i].target_id} \subseteq Seq(Byte)

ASSUME GraphsAssumption == \A r \in Responses : r.whole => IsGraph(r.graph)

\* What was read is the graph.
NodesOf(graph)     == [n \in DOMAIN graph.nodes |-> Node(graph.nodes[n])]
GraphIsRead(graph) == nodes = NodesOf(graph) /\ edges = graph.edges

\* The rows are the edges of the graph, with what it says of their ends.
RowsTell(graph) ==
  /\ Len(rows) = Len(graph.edges)
  /\ \A i \in DOMAIN rows :
       LET edge == graph.edges[i]
           row  == rows[i]
       IN  /\ TellsEnd(graph, edge.source_id, row.source_service, row.source_type, row.source_attributes)
           /\ TellsEnd(graph, edge.target_id, row.target_service, row.target_type, row.target_attributes)
           /\ row.edge_type = IF edge.type = SendsTraffic THEN SendsTrafficTo ELSE edge.type
           /\ row.edge_attributes = AttributesJson(edge.properties, << >>, edge.labels)
           /\ \/ row.environment # << >> /\ SaysEnvironment(graph, edge.source_id, row.environment)
              \/ /\ SaysEnvironment(graph, edge.source_id, << >>)
                 /\ SaysEnvironment(graph, edge.target_id, row.environment)

-----------------------------------------------------------------------------
(* Where an answer breaks off                                              *)
(*                                                                         *)
(* The wire format, as a relation between the positions of some bytes and  *)
(* apart from the reader above.  An answer that is not whole comes with    *)
(* where it breaks off: the starts of the frames, and then, of each        *)
(* message that lies in the one before, what it is, the starts of its      *)
(* fields and its end.  The last start of each is that of what holds the   *)
(* next message, and in the last one nothing whole starts there.           *)

IsVarint(b, i, j) ==
  /\ i < j /\ j <= i + VarintBytes /\ j <= Len(b)
  /\ b[j] < 128 /\ \A k \in i+1..j-1 : b[k] >= 128

Integer(b, i, j) == VarintValue(SubSeq(b, i + 1, j))
TagNumber(b, i, j) == (Integer(b, i, j) \div 8) % NumberModulus

IsTag(b, i, j, wire_type) ==
  IsVarint(b, i, j) /\ Integer(b, i, j) % 8 = wire_type /\ TagNumber(b, i, j) # 0

\* A field lies between two positions.
IsField(b, i, j) ==
  \E t \in i+1..j :
    \/ IsTag(b, i, t, 0) /\ IsVarint(b, t, j)
    \/ IsTag(b, i, t, 1) /\ j = t + 8
    \/ IsTag(b, i, t, 5) /\ j = t + 4
    \/ IsTag(b, i, t, 2) /\ \E s \in t+1..j : IsVarint(b, t, s) /\ Integer(b, t, s) = j - s

\* The field that starts at i holds a message that lies between from and to.
HoldsMessage(b, i, number, from, to) ==
  \E t \in i+1..from :
    /\ IsTag(b, i, t, 2) /\ TagNumber(b, i, t) = number
    /\ IsVarint(b, t, from) /\ Integer(b, t, from) = to - from

\* A frame that is not compressed.
IsFrame(b, i, j) ==
  /\ i + 5 <= j /\ j <= Len(b)
  /\ b[i + 1] % 2 = 0
  /\ j - (i + 5) = 16777216 * b[i + 2] + 65536 * b[i + 3] + 256 * b[i + 4] + b[i + 5]

IsTrailer(b, i) == b[i + 1] >= 128

\* Frames one after the other.
AreFrames(b, starts) ==
  /\ starts \in Seq(0..Len(b)) /\ Len(starts) > 0 /\ starts[1] = 0
  /\ \A k \in 1..Len(starts) - 1 : IsFrame(b, starts[k], starts[k + 1])

\* One of them, before the last start, is a message.
HasMessage(b, starts) == \E k \in 1..Len(starts) - 1 : ~IsTrailer(b, starts[k])

\* After them there is no frame but a second message, or no message has come.
FramesBreakOff(b, starts) ==
  LET i == starts[Len(starts)] IN
  \/ i < Len(b) /\ \A j \in i..Len(b) : IsFrame(b, i, j) => ~IsTrailer(b, i) /\ HasMessage(b, starts)
  \/ i = Len(b) /\ ~HasMessage(b, starts)

\* The frame after them is the first message, a response.
FrameHolds(b, starts, level) ==
  LET i == starts[Len(starts)] IN
  /\ ~HasMessage(b, starts) /\ IsFrame(b, i, level.end) /\ ~IsTrailer(b, i)
  /\ level.message = "response" /\ level.starts[1] = i + 5

\* Fields one after the other, and more to come.
AreFields(b, level) ==
  /\ level.end \in 0..Len(b)
  /\ level.starts \in Seq(0..level.end - 1) /\ Len(level.starts) > 0
  /\ \A k \in 1..Len(level.starts) - 1 : IsField(b, level.starts[k], level.starts[k + 1])

\* The field after them holds a message.
FieldHolds(b, level, inner) ==
  \E nested \in Nested :
    /\ nested[1] = level.message /\ nested[3] = inner.message
    /\ HoldsMessage(b, level.starts[Len(level.starts)], nested[2], inner.starts[1], inner.end)

\* After them there is no field.
FieldsBreakOff(b, level) ==
  \A j \in 0..level.end : ~IsField(b, level.starts[Len(level.starts)], j)

BreaksOff(b, frames, levels) ==
  /\ AreFrames(b, frames)
  /\ IF levels = << >> THEN FramesBreakOff(b, frames)
     ELSE /\ FrameHolds(b, frames, levels[1])
          /\ \A d \in 1..Len(levels) : AreFields(b, levels[d])
          /\ \A d \in 1..Len(levels) - 1 : FieldHolds(b, levels[d], levels[d + 1])
          /\ FieldsBreakOff(b, levels[Len(levels)])

ASSUME BreachesAssumption ==
  \A r \in Responses : ~r.whole => r.levels \in Seq(ToSet(r.levels)) /\ BreaksOff(r.body, r.frames, r.levels)

-----------------------------------------------------------------------------
(* Properties                                                              *)

\* The ranges of the variables.  A message lies in its frame, and a nested one
\* ends where the message around it goes on: no reader passes the end of the
\* one below it (gcloud_topology.cpp:80).
TypeOK ==
  /\ response \in Responses
  /\ pc \in {"unframe", "read", "done", "refused"}
  /\ offset \in 0..Len(body)
  /\ Len(messages) <= 1
  /\ \A i \in DOMAIN messages : messages[i].to \in 0..Len(body) /\ messages[i].from \in 0..messages[i].to
  /\ pc = "read" => stack # << >> /\ messages # << >>
  /\ \A i \in DOMAIN stack :
       /\ stack[i].cursor \in 0..stack[i].end
       /\ stack[i].end = IF i = 1 THEN messages[1].to ELSE stack[i-1].cursor

\* A whole response is read to its end, and the rows are the edges of the graph
\* that the service encoded, each with its own attributes and with what the
\* graph says of its two ends, whatever the order of the fields, with unknown
\* fields anywhere, and wherever the nodes stand (gcloud_topology.cpp:447).
DependenciesTellTheGraph ==
  response.whole => /\ pc # "refused"
                    /\ pc = "done" => GraphIsRead(response.graph) /\ RowsTell(response.graph)

\* A response that breaks off in any message yields no rows: a service map is
\* never silently part of one (gcloud_topology.cpp:106).
CutShortIsRefused == ~response.whole => pc # "done"

\* Decoding ends, with rows or an error, for every answer.
DecodeEnds == <>(pc \in {"done", "refused"})
=============================================================================
