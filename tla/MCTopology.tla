----------------------------- MODULE MCTopology -----------------------------
(***************************************************************************)
(* Topology with texts of a few bytes, one of them long enough for a       *)
(* length of two bytes, and varints of up to three.  The service encodes   *)
(* graphs of up to two nodes, of which one may repeat the id of the other, *)
(* and of one or two edges, to known and unknown ids: in the usual order   *)
(* or with the groups of fields turned round, with and without unknown     *)
(* fields, in one part or two, with trailers around it; and cut short in   *)
(* every message, where the wire format says that it breaks off.           *)
(***************************************************************************)
EXTENDS Topology

MCNameKeys        == <<<<1>>, <<2>>, <<3>>>>
MCTypeKeys        == <<<<4>>, <<5>>>>
MCEnvironmentKeys == <<<<6>>, <<7>>>>
MCBasePrefix      == <<9>>
MCGenericLabels   == {<<9, 20>>, <<9, 21>>}
MCSeparators      == {47, 58}
MCSendsTraffic    == <<30, 31>>
MCSendsTrafficTo  == <<32>>
MCVarintModulus   == 2^20
MCNumberModulus   == 2^14

-----------------------------------------------------------------------------
(* Graphs                                                                  *)

Scalar(kind, text) == [kind |-> kind, content |-> text]
String(text)       == Scalar("STRING", text)
Property(key, value) == [key |-> key, value |-> value]

Long   == [i \in 1..130 |-> 65]
Number == Scalar("NUMBER", [i \in 1..8 |-> i])
NaN    == Scalar("NUMBER", <<0, 0, 0, 0, 0, 0, 248, 127>>)
List   == Scalar("ARRAY", <<String(<<70>>), Scalar("BOOLEAN", <<1>>), Scalar("NIL", << >>)>>)
Object == Scalar("OBJECT", <<Property(<<40>>, List), Property(<<41>>, Scalar("BOOLEAN", <<0>>))>>)

\* With a NUL in a text and in a key.
Cut    == Scalar("OBJECT", <<Property(<<42, 0, 42>>, Scalar("ARRAY", <<String(<<71, 0, 71>>)>>))>>)
Broken == Scalar("OBJECT", <<Property(<<43>>, Scalar("ARRAY", <<NaN>>))>>)

A == <<97>>
B == <<97, 47, 98>>
C == <<99, 58>>

GraphNode(id, labels, properties) == [id |-> id, labels |-> labels, properties |-> properties]

GraphNodes ==
  {GraphNode(A, <<<<9, 22>>, <<9, 20>>>>, <<Property(<<1>>, Number), Property(<<3>>, String(<<80>>)),
                                            Property(<<2>>, String(<<81>>))>>),
   GraphNode(A, <<<<9, 21>>>>, <<Property(<<5>>, String(<<82>>)), Property(<<6>>, String(<<83>>))>>),
   GraphNode(B, <<<<23>>>>, <<Property(<<44>>, Object), Property(<<7>>, String(<<84>>))>>),
   GraphNode(<< >>, << >>, <<Property(<<1>>, String(Long)), Property(<<1>>, String(<<85>>))>>)}

\* Nodes whose attributes JSON cuts short or cannot hold.
OddNodes ==
  {GraphNode(<<97, 0, 97>>, <<<<9, 0, 20>>>>, <<Property(<<1>>, String(<<86, 0, 86>>)), Property(<<46>>, Cut)>>),
   GraphNode(A, << >>, <<Property(<<46, 0>>, NaN)>>),
   GraphNode(B, << >>, <<Property(<<47>>, Broken), Property(<<2>>, String(<<87>>))>>)}

GraphEdge(source, target, type, labels, properties) ==
  [source_id |-> source, target_id |-> target, type |-> type, labels |-> labels, properties |-> properties]

EdgeLists ==
  {<<GraphEdge(A, B, <<30, 31>>, <<<<24>>, <<25>>>>, <<Property(<<45>>, Number)>>)>>,
   <<GraphEdge(B, A, <<33>>, << >>, << >>)>>,
   <<GraphEdge(C, << >>, << >>, << >>, << >>), GraphEdge(A, A, <<30, 31>>, <<<<24>>>>, << >>)>>}

OddEdges == <<GraphEdge(<<97, 0, 97>>, A, << >>, <<<<24, 0>>>>, <<Property(<<45>>, String(<<88, 0>>))>>),
              GraphEdge(B, << >>, << >>, << >>, <<Property(<<45>>, Broken)>>)>>

Graphs == [nodes : {<< >>} \cup {<<n>> : n \in GraphNodes} \cup GraphNodes \X GraphNodes, edges : EdgeLists]
            \cup [nodes : {<<n>> : n \in OddNodes}, edges : {OddEdges}]

\* What is read of a graph: what lies in an object or in a list is JSON.
Read(value) ==
  LET item(v)   == IF v.kind # "ARRAY" THEN v
                   ELSE [v EXCEPT !.content = [i \in DOMAIN v.content |-> ToJson(v.content[i])]]
      member(p) == [p EXCEPT !.value = item(@)]
  IN  IF value.kind # "OBJECT" THEN item(value)
      ELSE [value EXCEPT !.content = Members([i \in DOMAIN value.content |-> member(value.content[i])])]

ReadAll(elements) ==
  [n \in DOMAIN elements |->
     [elements[n] EXCEPT !.properties = [p \in DOMAIN @ |-> [@[p] EXCEPT !.value = Read(@)]]]]

ReadGraph(graph) == [nodes |-> ReadAll(graph.nodes), edges |-> ReadAll(graph.edges)]

-----------------------------------------------------------------------------
(* Encodings                                                               *)

Unknown == PutEnum(15, 2^20 - 1) \o PutBytes(100, <<1, 2>>) \o PutTag(13, 1) \o [i \in 1..8 |-> 0]
             \o PutTag(12, 5) \o [i \in 1..4 |-> 255]

\* A message of groups of fields.
Message(groups, style) ==
  LET n == Len(groups)
      order(i) == IF style.turned THEN groups[n + 1 - i] ELSE groups[i]
      all[i \in 0..n] == IF i = 0 THEN << >> ELSE all[i-1] \o order(i)
  IN  IF style.unknown THEN Unknown \o all[n] \o Unknown ELSE all[n]

\* One field for each element.
Each(sequence, Field(_)) ==
  LET all[i \in 0..Len(sequence)] == IF i = 0 THEN << >> ELSE all[i-1] \o Field(sequence[i]) IN all[Len(sequence)]

Encoded(value, style) ==
  LET scalar(v) == CASE v.kind = "NIL"     -> PutEnum(1, 0)
                     [] v.kind = "NUMBER"  -> PutTag(2, 1) \o v.content
                     [] v.kind = "STRING"  -> PutBytes(3, v.content)
                     [] v.kind = "BOOLEAN" -> PutEnum(4, IF v.content = <<1>> THEN 300 ELSE 0)
      list(v)   == IF v.kind # "ARRAY" THEN scalar(v)
                   ELSE PutBytes(6, Each(v.content, LAMBDA w : PutBytes(1, scalar(w))))
      object(v) == IF v.kind # "OBJECT" THEN list(v)
                   ELSE PutBytes(5, Each(v.content, LAMBDA p : PutBytes(1, PutBytes(1, p.key) \o PutBytes(2, list(p.value)))))
  IN  Message(<<object(value)>>, style)

Struct(properties, style) ==
  Each(properties, LAMBDA p :
    PutBytes(1, Message(<<PutBytes(1, p.key), PutBytes(2, Encoded(p.value, style))>>, style)))

NodeMessage(node, style) ==
  Message(<<PutBytes(3, Struct(node.properties, style)),
            IF node.id = << >> THEN << >> ELSE PutBytes(4, node.id),
            Each(node.labels, LAMBDA l : PutBytes(5, l))>>, style)

EdgeMessage(edge, style) ==
  Message(<<PutBytes(6, edge.source_id), PutBytes(7, edge.target_id), PutBytes(8, edge.type),
            Each(edge.labels, LAMBDA l : PutBytes(9, PutBytes(1, l))),
            PutBytes(5, Struct(edge.properties, style))>>, style)

NodeFields(graph, style) == Each(graph.nodes, LAMBDA n : PutBytes(1, NodeMessage(n, style)))
EdgeFields(graph, style) == Each(graph.edges, LAMBDA e : PutBytes(2, EdgeMessage(e, style)))

Styles == [turned : BOOLEAN, unknown : BOOLEAN]
Plain  == [turned |-> FALSE, unknown |-> FALSE]

\* In one part, or nodes and edges apart.
Payloads(graph, style) ==
  {PutBytes(1, Message(<<NodeFields(graph, style), EdgeFields(graph, style)>>, style)),
   Message(<<PutBytes(1, NodeFields(graph, style)), PutBytes(1, EdgeFields(graph, style))>>, style)}

EmptyTrailer == <<128, 0, 0, 0, 0>>
TextTrailer  == <<128, 0, 0, 0, 2, 1, 1>>

Answer(b, graph) == [body |-> b, whole |-> TRUE, graph |-> ReadGraph(graph), frames |-> << >>, levels |-> << >>]

Whole ==
  UNION {{Answer(FrameGrpcMessage(payload), graph) :
            payload \in Payloads(graph, style)} : graph \in Graphs, style \in Styles}
    \cup UNION {{Answer(EmptyTrailer \o FrameGrpcMessage(payload) \o TextTrailer, graph) :
            payload \in Payloads(graph, Plain)} : graph \in {g \in Graphs : Len(g.nodes) = 1}}

\* Prefixes that end inside the message.
Cuts(message) == {SubSeq(message, 1, n) : n \in 1..Len(message) - 1}

OneNode == GraphNode(B, << >>, <<Property(<<44>>, String(<<84>>))>>)

\* Cut in the response, in the topology, in the id of a node, in the value of a
\* property and in the label of an edge, with the messages around them whole.
CutPayloads ==
  LET node  == NodeMessage(OneNode, Plain)
      value == Encoded(String(<<84, 85>>), Plain)
      nodeOf(v) == PutBytes(3, PutBytes(1, PutBytes(1, <<44>>) \o PutBytes(2, v)))
  IN  Cuts(PutBytes(1, PutBytes(1, node)))
        \cup {PutBytes(1, cut) : cut \in Cuts(PutBytes(1, node))}
        \cup {PutBytes(1, PutBytes(1, cut)) : cut \in Cuts(PutBytes(4, B))}
        \cup {PutBytes(1, PutBytes(1, nodeOf(cut)) \o PutBytes(2, << >>)) : cut \in Cuts(value)}
        \cup {PutBytes(1, PutBytes(2, PutBytes(9, cut) \o PutBytes(6, A))) : cut \in Cuts(PutBytes(1, <<70, 71>>))}

NoGraph == [nodes |-> << >>, edges |-> << >>]

\* The starts of the fields of a message.
RECURSIVE FieldStarts(_, _, _)
FieldStarts(b, i, end) ==
  {i} \cup UNION {FieldStarts(b, j, end) : j \in {j \in i+1..end : IsField(b, i, j)}}

\* The starts of the frames of an answer, up to that of a message.
RECURSIVE FrameStarts(_, _)
FrameStarts(b, i) ==
  {i} \cup UNION {FrameStarts(b, j) : j \in {j \in i..Len(b) : IsFrame(b, i, j) /\ IsTrailer(b, i)}}

InOrder(starts) == SetToSortSeq(starts, LAMBDA i, j : i < j)

\* The messages in which one breaks off, from the outermost on, in each way it does.
RECURSIVE Ways(_, _, _, _)
Ways(b, message, from, to) ==
  UNION {LET level(k) == [message |-> message, starts |-> SubSeq(starts, 1, k), end |-> to]
             inner(k, nested) == UNION {Ways(b, nested[3], s, starts[k + 1]) :
                                          s \in {s \in starts[k]..starts[k + 1] :
                                                   HoldsMessage(b, starts[k], nested[2], s, starts[k + 1])}}
         IN  IF Last(starts) # to THEN {<<level(Len(starts))>>}
             ELSE UNION {{<<level(k)>> \o way : way \in inner(k, nested)} :
                           k \in 1..Len(starts) - 1, nested \in {n \in Nested : n[1] = message}} :
         starts \in {InOrder(FieldStarts(b, from, to))}}

\* An answer and where it breaks off: in its first message, or at a frame.
Partials(b) ==
  LET partial(frames, levels) ==
        [body |-> b, whole |-> FALSE, graph |-> NoGraph, frames |-> InOrder(frames), levels |-> levels]
  IN  UNION {LET i    == Max(frames)
                 ends == {j \in i..Len(b) : IsFrame(b, i, j)}
                 ways == UNION {Ways(b, "response", i + 5, j) : j \in ends}
             IN  IF ways # {} THEN {partial(frames, way) : way \in ways}
                 ELSE {partial(frames \cup UNION {FrameStarts(b, j) : j \in ends}, << >>)} :
             frames \in {FrameStarts(b, 0)}}

CutShort ==
  UNION {Partials(FrameGrpcMessage(payload)) : payload \in CutPayloads}
    \cup UNION {Partials(cut) : cut \in Cuts(FrameGrpcMessage(PutBytes(1, NodeFields([nodes |-> <<OneNode>>], Plain))))}

\* Answers that are not one plain message.
Unacceptable ==
  UNION {Partials(b) :
     b \in {<< >>, EmptyTrailer, <<1>> \o Tail(FrameGrpcMessage(<<10, 0>>)),
            FrameGrpcMessage(<<10, 0>>) \o FrameGrpcMessage(<<10, 0>>),
            EmptyTrailer \o FrameGrpcMessage(<<10, 5>>) \o TextTrailer,
            FrameGrpcMessage(<<0, 0>>), FrameGrpcMessage(<<11>>), FrameGrpcMessage(<<8, 255, 255, 255, 1>>)}}

MCResponses == Whole \cup CutShort \cup Unacceptable
=============================================================================
