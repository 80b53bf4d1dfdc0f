----------------------------- MODULE RowProofs ------------------------------
(***************************************************************************)
(* The rows that are made of what the services answer: those of Cloud      *)
(* Logging, which may be sent again (LogEntry), and those of the service   *)
(* map (Topology), for all rows, entries, labels, payloads, times, graphs  *)
(* and bodies.                                                             *)
(*                                                                         *)
(* A row that was sent is read back because whatever is at hand is a row   *)
(* that can be sent, whoever wrote it.  Copying settles because of what    *)
(* each copy adds: the first has its labels in snake case, the second has  *)
(* in its columns what its attributes say, the third has in its attributes *)
(* what its columns say, and so the fourth changes nothing.  The open      *)
(* messages of an answer lie in one another, what is decoded is what its   *)
(* bytes say, an answer that breaks off is refused, and the rows of a      *)
(* graph tell what it says.                                                *)
(***************************************************************************)
EXTENDS LogEntry, Topology, SequenceTheorems, FiniteSetTheorems, WellFoundedInduction, TLAPS

-----------------------------------------------------------------------------
(* Objects, and the first of some texts                                    *)

\* The least of some integers.
LEMMA MinIs ==
  ASSUME NEW S, \A n \in S : n \in Int, NEW m \in S, \A n \in S : m <= n
  PROVE  Min(S) = m
<1>1. Min(S) \in S /\ \A n \in S : Min(S) <= n
  BY Zenon DEF Min
<1>2. Min(S) <= m /\ m <= Min(S) /\ m \in Int /\ Min(S) \in Int
  BY <1>1
<1> QED
  BY <1>2

\* The first text that is given is taken,
LEMMA FirstGiven ==
  ASSUME NEW t, DOMAIN t \subseteq Int,
         NEW i \in DOMAIN t, t[i] # NULL, \A j \in DOMAIN t : j < i => t[j] = NULL
  PROVE  FirstOf(t) = t[i]
<1> DEFINE given == {j \in DOMAIN t : t[j] # NULL}
<1>1. i \in given /\ \A j \in given : j \in Int /\ i <= j
  OBVIOUS
<1> HIDE DEF given
<1>2. Min(given) = i /\ given # {}
  BY <1>1, MinIs
<1> QED
  BY <1>2 DEF FirstOf, given

\* and NULL if none is.
LEMMA NoneGiven ==
  ASSUME NEW t, \A j \in DOMAIN t : t[j] = NULL
  PROVE  FirstOf(t) = NULL
BY DEF FirstOf

\* Of two texts.
LEMMA FirstOfTwo ==
  ASSUME NEW a, NEW b
  PROVE  FirstOf(<<a, b>>) = IF a # NULL THEN a ELSE b
<1> DEFINE t == <<a, b>>
<1>1. DOMAIN t = 1..2 /\ t[1] = a /\ t[2] = b
  OBVIOUS
<1> HIDE DEF t
<1>2. CASE a # NULL
  BY <1>1, <1>2, FirstGiven DEF t
<1>3. CASE a = NULL /\ b # NULL
  <2>1. 2 \in DOMAIN t /\ DOMAIN t \subseteq Int /\ \A j \in DOMAIN t : j < 2 => t[j] = NULL
    BY <1>1, <1>3
  <2> QED
    BY <1>1, <1>3, <2>1, FirstGiven DEF t
<1>4. CASE a = NULL /\ b = NULL
  <2>1. \A j \in DOMAIN t : t[j] = NULL
    BY <1>1, <1>4
  <2> QED
    BY <1>4, <2>1, NoneGiven DEF t
<1> QED
  BY <1>2, <1>3, <1>4

\* Of three.
LEMMA FirstOfThree ==
  ASSUME NEW a, NEW b, NEW c
  PROVE  FirstOf(<<a, b, c>>) = IF a # NULL THEN a ELSE IF b # NULL THEN b ELSE c
<1> DEFINE t == <<a, b, c>>
<1>1. DOMAIN t = 1..3 /\ t[1] = a /\ t[2] = b /\ t[3] = c
  OBVIOUS
<1> HIDE DEF t
<1>2. CASE a # NULL
  BY <1>1, <1>2, FirstGiven DEF t
<1>3. CASE a = NULL /\ b # NULL
  <2>1. 2 \in DOMAIN t /\ DOMAIN t \subseteq Int /\ \A j \in DOMAIN t : j < 2 => t[j] = NULL
    BY <1>1, <1>3
  <2> QED
    BY <1>1, <1>3, <2>1, FirstGiven DEF t
<1>4. CASE a = NULL /\ b = NULL /\ c # NULL
  <2>1. 3 \in DOMAIN t /\ DOMAIN t \subseteq Int /\ \A j \in DOMAIN t : j < 3 => t[j] = NULL
    BY <1>1, <1>4
  <2> QED
    BY <1>1, <1>4, <2>1, FirstGiven DEF t
<1>5. CASE a = NULL /\ b = NULL /\ c = NULL
  <2>1. \A j \in DOMAIN t : t[j] = NULL
    BY <1>1, <1>5
  <2> QED
    BY <1>5, <2>1, NoneGiven DEF t
<1> QED
  BY <1>2, <1>3, <1>4, <1>5

\* The first key under which an object holds a string is taken,
LEMMA LookupHit ==
  ASSUME NEW o, NEW keys, DOMAIN keys \subseteq Int, NEW otherwise,
         NEW i \in DOMAIN keys, keys[i] \in DOMAIN Texts(o),
         \A j \in DOMAIN keys : j < i => keys[j] \notin DOMAIN Texts(o)
  PROVE  LookupStr(o, keys, otherwise) = o[keys[i]]
<1> DEFINE hits == {j \in DOMAIN keys : keys[j] \in DOMAIN Texts(o)}
<1>1. i \in hits /\ \A j \in hits : j \in Int /\ i <= j
  OBVIOUS
<1> HIDE DEF hits
<1>2. Min(hits) = i /\ hits # {}
  BY <1>1, MinIs
<1> QED
  BY <1>2 DEF LookupStr, hits

\* and what is taken otherwise if there is none.
LEMMA LookupMiss ==
  ASSUME NEW o, NEW keys, NEW otherwise, \A j \in DOMAIN keys : keys[j] \notin DOMAIN Texts(o)
  PROVE  LookupStr(o, keys, otherwise) = otherwise
BY DEF LookupStr

\* Either nothing is found, or what is taken otherwise is not looked at.
LEMMA LookupElse ==
  ASSUME NEW o, NEW keys
  PROVE  \/ \A x : LookupStr(o, keys, x) = x
         \/ \A x, y : LookupStr(o, keys, x) = LookupStr(o, keys, y)
BY DEF LookupStr

\* Of one key.
LEMMA LookupOne ==
  ASSUME NEW o, NEW a, NEW otherwise
  PROVE  LookupStr(o, <<a>>, otherwise) = IF a \in DOMAIN Texts(o) THEN o[a] ELSE otherwise
<1> DEFINE t == <<a>>
<1>1. DOMAIN t = 1..1 /\ t[1] = a
  OBVIOUS
<1> HIDE DEF t
<1>2. CASE a \in DOMAIN Texts(o)
  BY <1>1, <1>2, LookupHit DEF t
<1>3. CASE a \notin DOMAIN Texts(o)
  BY <1>1, <1>3, LookupMiss DEF t
<1> QED
  BY <1>2, <1>3

\* Of two keys.
LEMMA LookupTwo ==
  ASSUME NEW o, NEW a, NEW b, NEW otherwise
  PROVE  LookupStr(o, <<a, b>>, otherwise) =
           IF a \in DOMAIN Texts(o) THEN o[a] ELSE IF b \in DOMAIN Texts(o) THEN o[b] ELSE otherwise
<1> DEFINE t == <<a, b>>
<1>1. DOMAIN t = 1..2 /\ t[1] = a /\ t[2] = b
  OBVIOUS
<1> HIDE DEF t
<1>2. CASE a \in DOMAIN Texts(o)
  BY <1>1, <1>2, LookupHit DEF t
<1>3. CASE a \notin DOMAIN Texts(o) /\ b \in DOMAIN Texts(o)
  <2>1. 2 \in DOMAIN t /\ DOMAIN t \subseteq Int /\ \A j \in DOMAIN t : j < 2 => t[j] \notin DOMAIN Texts(o)
    BY <1>1, <1>3
  <2> QED
    BY <1>1, <1>3, <2>1, LookupHit DEF t
<1>4. CASE a \notin DOMAIN Texts(o) /\ b \notin DOMAIN Texts(o)
  <2>1. \A j \in DOMAIN t : t[j] \notin DOMAIN Texts(o)
    BY <1>1, <1>4
  <2> QED
    BY <1>4, <2>1, LookupMiss DEF t
<1> QED
  BY <1>2, <1>3, <1>4

-----------------------------------------------------------------------------
(* Members                                                                 *)

\* The texts that the code writes are texts.
LEMMA Literals == NULL \in STRING /\ "d" \in STRING
BY TextsAssumption

\* So is the code of a slash.
LEMMA CodeIsText == "%2F" \in STRING
BY TextsAssumption

\* NULL is no severity.
LEMMA NullIsNoName == NULL \notin Names
BY Zenon DEF NULL, Names

\* The members of two objects: of a key that both have, those of the first.
LEMMA MergeIs ==
  ASSUME NEW f, NEW g
  PROVE  /\ \A k : k \in DOMAIN Merge(f, g) <=> k \in DOMAIN f \/ k \in DOMAIN g
         /\ \A k \in DOMAIN f : Merge(f, g)[k] = f[k]
         /\ \A k \in DOMAIN g : k \notin DOMAIN f => Merge(f, g)[k] = g[k]
BY DEF Merge

\* They are an object.
LEMMA MergeIsObject ==
  ASSUME NEW f, NEW g
  PROVE  Merge(f, g) = [k \in DOMAIN Merge(f, g) |-> Merge(f, g)[k]]
BY DEF Merge

\* Of an object, the members that are strings, and those that are not empty.
LEMMA PutTexts ==
  ASSUME NEW o
  PROVE  /\ \A k : k \in DOMAIN Texts(o) <=> k \in DOMAIN o /\ o[k] # NotText
         /\ \A k : k \in DOMAIN Put(Texts(o)) <=> k \in DOMAIN o /\ o[k] # NotText /\ o[k] # NULL
         /\ \A k \in DOMAIN Put(Texts(o)) : Put(Texts(o))[k] = o[k]
         /\ Put(Texts(o)) = [k \in DOMAIN Put(Texts(o)) |-> o[k]]
<1>1. /\ \A k : k \in DOMAIN Texts(o) <=> k \in DOMAIN o /\ o[k] # NotText
      /\ \A k \in DOMAIN Texts(o) : Texts(o)[k] = o[k]
  BY DEF Texts
<1>2. /\ \A k : k \in DOMAIN Put(Texts(o)) <=> k \in DOMAIN Texts(o) /\ Texts(o)[k] # NULL
      /\ \A k \in DOMAIN Put(Texts(o)) : Put(Texts(o))[k] = Texts(o)[k]
      /\ Put(Texts(o)) = [k \in DOMAIN Put(Texts(o)) |-> Put(Texts(o))[k]]
  BY DEF Put
<1>3. Put(Texts(o)) = [k \in DOMAIN Put(Texts(o)) |-> o[k]]
  BY <1>1, <1>2
<1> QED
  BY <1>1, <1>2, <1>3

\* An object whose members are texts that are not empty.
IsGiven(o) ==
  /\ o = [k \in DOMAIN o |-> o[k]]
  /\ \A k \in DOMAIN o : o[k] \in STRING /\ o[k] # NULL

\* An object of strings that are not empty is written as it is.
LEMMA GivenStays ==
  ASSUME NEW o, IsGiven(o)
  PROVE  DOMAIN Texts(o) = DOMAIN o /\ Put(Texts(o)) = o
<1>1. \A k \in DOMAIN o : o[k] # NotText /\ o[k] # NULL
  BY TextsAssumption DEF IsGiven
<1>2. DOMAIN Texts(o) = DOMAIN o /\ DOMAIN Put(Texts(o)) = DOMAIN o
  BY <1>1, PutTexts
<1> QED
  BY <1>2, PutTexts DEF IsGiven

\* What is written of an object are such members,
LEMMA PutTextsAreGiven ==
  ASSUME NEW o, IsObject(o)
  PROVE  IsGiven(Put(Texts(o)))
<1>1. \A k \in DOMAIN Put(Texts(o)) : Put(Texts(o))[k] \in STRING /\ Put(Texts(o))[k] # NULL
  BY PutTexts DEF IsObject
<1>2. Put(Texts(o)) = [k \in DOMAIN Put(Texts(o)) |-> Put(Texts(o))[k]]
  BY PutTexts
<1> QED
  BY <1>1, <1>2 DEF IsGiven

\* and so are those of two.
LEMMA MergedAreGiven ==
  ASSUME NEW o, IsGiven(o), NEW p, IsGiven(p)
  PROVE  IsGiven(Merge(o, p))
<1>1. /\ \A l \in DOMAIN o : o[l] \in STRING /\ o[l] # NULL
      /\ \A l \in DOMAIN p : p[l] \in STRING /\ p[l] # NULL
  BY DEF IsGiven
<1> DEFINE m == Merge(o, p)
<1>2. /\ \A k : k \in DOMAIN m <=> k \in DOMAIN o \/ k \in DOMAIN p
      /\ \A k \in DOMAIN o : m[k] = o[k]
      /\ \A k \in DOMAIN p : k \notin DOMAIN o => m[k] = p[k]
  BY MergeIs
<1>3. m = [k \in DOMAIN m |-> m[k]]
  BY MergeIsObject
<1> HIDE DEF m
<1>4. \A k \in DOMAIN m : m[k] \in STRING /\ m[k] # NULL
  BY <1>1, <1>2
<1> QED
  BY <1>3, <1>4 DEF IsGiven, m

\* What a column of its own is called in the labels.
OwnNames == {"service_name", "service_namespace", "service_instance_id"}

\* The labels that come from columns are those of the columns that are given.
LEMMA OwnLabelsAre ==
  ASSUME NEW r, {r.service_name, r.service_namespace, r.service_instance_id} \subseteq STRING
  PROVE  /\ IsGiven(OwnLabels(r))
         /\ DOMAIN OwnLabels(r) \subseteq OwnNames
         /\ r.service_name # NULL <=> "service_name" \in DOMAIN OwnLabels(r)
         /\ r.service_namespace # NULL <=> "service_namespace" \in DOMAIN OwnLabels(r)
         /\ r.service_instance_id # NULL <=> "service_instance_id" \in DOMAIN OwnLabels(r)
         /\ r.service_name # NULL => OwnLabels(r)["service_name"] = r.service_name
         /\ r.service_namespace # NULL => OwnLabels(r)["service_namespace"] = r.service_namespace
         /\ r.service_instance_id # NULL => OwnLabels(r)["service_instance_id"] = r.service_instance_id
<1> DEFINE o == [service_name        |-> r.service_name,
                 service_namespace   |-> r.service_namespace,
                 service_instance_id |-> r.service_instance_id]
<1>1. /\ DOMAIN o = OwnNames
      /\ o["service_name"] = r.service_name
      /\ o["service_namespace"] = r.service_namespace
      /\ o["service_instance_id"] = r.service_instance_id
  BY DEF OwnNames
<1> HIDE DEF o
<1>2. OwnLabels(r) = Put(o)
  BY DEF OwnLabels, o
<1>3. /\ \A k : k \in DOMAIN Put(o) <=> k \in DOMAIN o /\ o[k] # NULL
      /\ \A k \in DOMAIN Put(o) : Put(o)[k] = o[k]
      /\ Put(o) = [k \in DOMAIN Put(o) |-> Put(o)[k]]
  BY DEF Put
<1>4. \A k \in OwnNames : o[k] \in STRING
  BY <1>1 DEF OwnNames
<1>5. IsGiven(Put(o))
  BY <1>1, <1>3, <1>4 DEF IsGiven
<1>6. "service_name" \in OwnNames /\ "service_namespace" \in OwnNames /\ "service_instance_id" \in OwnNames
  BY DEF OwnNames
<1> QED
  BY <1>1, <1>2, <1>3, <1>5, <1>6

-----------------------------------------------------------------------------
(* Labels                                                                  *)

\* Labels without two of the same snake case are read with their values, under that.
LEMMA SnakeLabelsAre ==
  ASSUME NEW labels, IsLabels(labels), OneSpelling(DOMAIN Put(Texts(labels)))
  PROVE  /\ IsGiven(SnakeLabels(labels))
         /\ \A k : k \in DOMAIN SnakeLabels(labels) <=>
                   \E l \in DOMAIN Put(Texts(labels)) : k = SnakeCase[l]
         /\ \A l \in DOMAIN Put(Texts(labels)) : SnakeLabels(labels)[SnakeCase[l]] = labels[l]
         /\ \A k \in DOMAIN SnakeLabels(labels) : k \in DOMAIN SnakeCase /\ SnakeCase[k] = k
<1> DEFINE texts == Put(Texts(labels))
           snake == SnakeLabels(labels)
<1>1. IsGiven(texts)
  BY PutTextsAreGiven DEF IsLabels
<1>2. \A l \in DOMAIN texts : texts[l] = labels[l] /\ l \in DOMAIN SnakeCase
  BY PutTexts DEF IsLabels
<1>3. snake = [k \in {SnakeCase[l] : l \in DOMAIN texts} |->
                 texts[CHOOSE l \in DOMAIN texts : SnakeCase[l] = k]]
  BY DEF SnakeLabels
<1> HIDE DEF texts, snake
<1>4. \A k : k \in DOMAIN snake <=> \E l \in DOMAIN texts : k = SnakeCase[l]
  BY <1>3
<1>5. \A l \in DOMAIN texts : snake[SnakeCase[l]] = texts[l]
  <2> SUFFICES ASSUME NEW l \in DOMAIN texts PROVE snake[SnakeCase[l]] = texts[l]
    OBVIOUS
  <2> DEFINE chosen == CHOOSE m \in DOMAIN texts : SnakeCase[m] = SnakeCase[l]
  <2>1. chosen \in DOMAIN texts /\ SnakeCase[chosen] = SnakeCase[l]
    BY Zenon
  <2>2. chosen = l
    BY <2>1 DEF OneSpelling, texts
  <2>3. snake[SnakeCase[l]] = texts[chosen]
    BY <1>3, <1>4, Zenon
  <2> QED
    BY <2>2, <2>3
<1>6. \A k \in DOMAIN snake : /\ k \in DOMAIN SnakeCase /\ SnakeCase[k] = k
                              /\ snake[k] \in STRING /\ snake[k] # NULL
  <2> SUFFICES ASSUME NEW k \in DOMAIN snake
               PROVE  /\ k \in DOMAIN SnakeCase /\ SnakeCase[k] = k
                      /\ snake[k] \in STRING /\ snake[k] # NULL
    OBVIOUS
  <2>1. PICK l \in DOMAIN texts : k = SnakeCase[l]
    BY <1>4
  <2>2. k \in DOMAIN SnakeCase /\ SnakeCase[k] = k
    BY <1>2, <2>1, SnakeCaseAssumption
  <2>3. snake[k] = texts[l]
    BY <1>5, <2>1
  <2> QED
    BY <1>1, <2>2, <2>3 DEF IsGiven
<1>7. snake = [k \in DOMAIN snake |-> snake[k]]
  BY <1>3, <1>4
<1> QED
  BY <1>2, <1>4, <1>5, <1>6, <1>7 DEF IsGiven, texts, snake

\* Labels in snake case are kept as they are.
IsSnake(labels) == IsGiven(labels) /\ \A k \in DOMAIN labels : k \in DOMAIN SnakeCase /\ SnakeCase[k] = k

\* Labels in snake case are read as they are.
LEMMA SnakeStays ==
  ASSUME NEW labels, IsSnake(labels)
  PROVE  /\ SnakeLabels(labels) = labels
         /\ OneSpelling(DOMAIN labels)
         /\ IsLabels(labels)
<1>1. Put(Texts(labels)) = labels
  BY GivenStays DEF IsSnake
<1>2. OneSpelling(DOMAIN labels)
  BY DEF IsSnake, OneSpelling
<1>3. IsLabels(labels)
  BY DEF IsSnake, IsGiven, IsLabels, IsObject
<1>4. /\ IsGiven(SnakeLabels(labels))
      /\ \A k : k \in DOMAIN SnakeLabels(labels) <=> \E l \in DOMAIN labels : k = SnakeCase[l]
      /\ \A l \in DOMAIN labels : SnakeLabels(labels)[SnakeCase[l]] = labels[l]
  BY <1>1, <1>2, <1>3, SnakeLabelsAre
<1>5. DOMAIN SnakeLabels(labels) = DOMAIN labels
  BY <1>4 DEF IsSnake
<1>6. \A l \in DOMAIN labels : SnakeLabels(labels)[l] = labels[l]
  BY <1>4 DEF IsSnake
<1>7. SnakeLabels(labels) = labels
  BY <1>4, <1>5, <1>6 DEF IsSnake, IsGiven
<1> QED
  BY <1>2, <1>3, <1>7

-----------------------------------------------------------------------------
(* What is written of a row                                                *)

\* The labels of an entry: those of columns, and the attributes that no column hides.
LEMMA LabelsAre ==
  ASSUME NEW r, IsRow(r)
  PROVE  /\ IsGiven(Labels(r)) /\ IsLabels(Labels(r))
         /\ Put(Texts(Labels(r))) = Labels(r) /\ DOMAIN Texts(Labels(r)) = DOMAIN Labels(r)
         /\ \A k : k \in DOMAIN Labels(r) <=>
                   k \in DOMAIN OwnLabels(r) \/ k \in DOMAIN Put(Texts(r.log_attributes.labels))
         /\ \A k \in DOMAIN OwnLabels(r) : Labels(r)[k] = OwnLabels(r)[k]
         /\ \A k \in DOMAIN Put(Texts(r.log_attributes.labels)) :
              k \notin DOMAIN OwnLabels(r) => Labels(r)[k] = r.log_attributes.labels[k]
<1> DEFINE labels == r.log_attributes.labels
           own    == OwnLabels(r)
<1>1. IsLabels(labels) /\ {r.service_name, r.service_namespace, r.service_instance_id} \subseteq STRING
  BY DEF IsRow
<1>2. IsGiven(own) /\ DOMAIN own \subseteq OwnNames
  BY <1>1, OwnLabelsAre
<1>3. /\ IsGiven(Put(Texts(labels)))
      /\ DOMAIN Put(Texts(labels)) \subseteq DOMAIN labels
      /\ \A k \in DOMAIN Put(Texts(labels)) : Put(Texts(labels))[k] = labels[k]
  BY <1>1, PutTexts, PutTextsAreGiven DEF IsLabels
<1>4. Labels(r) = Merge(own, Put(Texts(labels)))
  BY DEF Labels
<1> HIDE DEF labels, own
<1>5. IsGiven(Labels(r))
  BY <1>2, <1>3, <1>4, MergedAreGiven
<1>6. /\ \A k : k \in DOMAIN Labels(r) <=> k \in DOMAIN own \/ k \in DOMAIN Put(Texts(labels))
      /\ \A k \in DOMAIN own : Labels(r)[k] = own[k]
      /\ \A k \in DOMAIN Put(Texts(labels)) : k \notin DOMAIN own => Labels(r)[k] = labels[k]
  BY <1>3, <1>4, MergeIs
<1>7. OwnNames \subseteq DOMAIN SnakeCase
  BY SnakeCaseAssumption DEF OwnNames, WrittenLabels
<1>8. IsLabels(Labels(r))
  BY <1>1, <1>2, <1>3, <1>5, <1>6, <1>7 DEF IsLabels, IsObject, IsGiven
<1>9. Put(Texts(Labels(r))) = Labels(r) /\ DOMAIN Texts(Labels(r)) = DOMAIN Labels(r)
  BY <1>5, GivenStays
<1> QED
  BY <1>5, <1>6, <1>8, <1>9 DEF labels, own

\* The labels of the monitored resource.
WrittenResource(r) == Merge([project_id |-> Project], Put(Texts(r.resource_attributes.labels)))

\* The labels of the resource: the project, and the attributes that it does not hide.
LEMMA WrittenResourceIs ==
  ASSUME NEW r, IsRow(r)
  PROVE  LET resource == r.resource_attributes.labels IN
         /\ IsGiven(WrittenResource(r)) /\ IsLabels(WrittenResource(r))
         /\ Put(Texts(WrittenResource(r))) = WrittenResource(r)
         /\ DOMAIN Texts(WrittenResource(r)) = DOMAIN WrittenResource(r)
         /\ \A k : k \in DOMAIN WrittenResource(r) <=>
                   k = "project_id" \/ k \in DOMAIN Put(Texts(resource))
         /\ WrittenResource(r)["project_id"] = Project
         /\ \A k \in DOMAIN Put(Texts(resource)) :
              k # "project_id" => WrittenResource(r)[k] = resource[k]
<1> DEFINE resource == r.resource_attributes.labels
           project  == [project_id |-> Project]
<1>1. IsLabels(resource)
  BY DEF IsRow
<1>2. DOMAIN project = {"project_id"} /\ project["project_id"] = Project
  OBVIOUS
<1>3. project = [k \in DOMAIN project |-> project[k]]
  OBVIOUS
<1>4. WrittenResource(r) = Merge(project, Put(Texts(resource)))
  BY DEF WrittenResource
<1> HIDE DEF project
<1>5. IsGiven(project)
  BY <1>2, <1>3, TextsAssumption DEF IsGiven
<1>6. /\ IsGiven(Put(Texts(resource)))
      /\ DOMAIN Put(Texts(resource)) \subseteq DOMAIN resource
      /\ \A k \in DOMAIN Put(Texts(resource)) : Put(Texts(resource))[k] = resource[k]
  BY <1>1, PutTexts, PutTextsAreGiven DEF IsLabels
<1> HIDE DEF resource
<1>7. IsGiven(WrittenResource(r))
  BY <1>4, <1>5, <1>6, MergedAreGiven
<1>8. /\ \A k : k \in DOMAIN WrittenResource(r) <=> k \in DOMAIN project \/ k \in DOMAIN Put(Texts(resource))
      /\ \A k \in DOMAIN project : WrittenResource(r)[k] = project[k]
      /\ \A k \in DOMAIN Put(Texts(resource)) : k \notin DOMAIN project => WrittenResource(r)[k] = resource[k]
  BY <1>4, <1>6, MergeIs
<1>9. IsLabels(WrittenResource(r))
  <2>1. "project_id" \in DOMAIN SnakeCase
    BY SnakeCaseAssumption DEF WrittenLabels
  <2> QED
    BY <1>1, <1>2, <1>6, <1>7, <1>8, <2>1 DEF IsLabels, IsObject, IsGiven
<1>10. Put(Texts(WrittenResource(r))) = WrittenResource(r) /\ DOMAIN Texts(WrittenResource(r)) = DOMAIN WrittenResource(r)
  BY <1>7, GivenStays
<1> QED
  BY <1>2, <1>7, <1>8, <1>9, <1>10 DEF resource

\* The payload: body and service, and the attributes that they do not hide.
LEMMA PayloadIs ==
  ASSUME NEW r, IsRow(r)
  PROVE  LET fields == r.log_attributes.fields IN
         /\ Payload(r) = IF fields = Nothing THEN {} ELSE {Merge(Message(r), fields)}
         /\ IsObject(Merge(Message(r), fields))
         /\ \A k : k \in DOMAIN Merge(Message(r), fields) <=>
                   \/ k = "message" /\ r.body # NULL
                   \/ k = "service" /\ r.service_name # NULL
                   \/ k \in DOMAIN fields
         /\ r.body # NULL => Merge(Message(r), fields)["message"] = r.body
         /\ r.service_name # NULL => Merge(Message(r), fields)["service"] = r.service_name
         /\ \A k \in DOMAIN fields :
              \/ k = "message" /\ r.body # NULL
              \/ k = "service" /\ r.service_name # NULL
              \/ Merge(Message(r), fields)[k] = fields[k]
<1> DEFINE fields == r.log_attributes.fields
           o == [message |-> r.body, service |-> r.service_name]
<1>1. DOMAIN o = {"message", "service"} /\ o["message"] = r.body /\ o["service"] = r.service_name
  OBVIOUS
<1>2. Message(r) = Put(o) /\ Payload(r) = IF fields = Nothing THEN {} ELSE {Merge(Message(r), fields)}
  BY DEF Message, Payload
<1>3. IsObject(fields) /\ r.body \in STRING /\ r.service_name \in STRING
  BY DEF IsRow
<1> HIDE DEF o, fields
<1>4. /\ \A k : k \in DOMAIN Put(o) <=> k \in DOMAIN o /\ o[k] # NULL
      /\ \A k \in DOMAIN Put(o) : Put(o)[k] = o[k]
  BY DEF Put
<1>5. /\ \A k : k \in DOMAIN Merge(Put(o), fields) <=> k \in DOMAIN Put(o) \/ k \in DOMAIN fields
      /\ \A k \in DOMAIN Put(o) : Merge(Put(o), fields)[k] = o[k]
      /\ \A k \in DOMAIN fields : k \notin DOMAIN Put(o) => Merge(Put(o), fields)[k] = fields[k]
      /\ Merge(Put(o), fields) = [k \in DOMAIN Merge(Put(o), fields) |-> Merge(Put(o), fields)[k]]
  BY <1>4, MergeIs, MergeIsObject
<1>6. \A k : k \in DOMAIN Put(o) <=> \/ (k = "message" /\ r.body # NULL)
                                    \/ (k = "service" /\ r.service_name # NULL)
  BY <1>1, <1>4
<1>7. IsObject(Merge(Put(o), fields))
  <2>1. ASSUME NEW k \in DOMAIN Merge(Put(o), fields)
        PROVE  Merge(Put(o), fields)[k] \in STRING \cup {NotText}
    <3>1. CASE k \in DOMAIN Put(o)
      BY <1>1, <1>3, <1>4, <1>5, <3>1
    <3>2. CASE k \in DOMAIN fields /\ k \notin DOMAIN Put(o)
      BY <1>3, <1>5, <3>2 DEF IsObject
    <3> QED
      BY <1>5, <3>1, <3>2
  <2> QED
    BY <1>5, <2>1 DEF IsObject
<1>8. \A k : k \in DOMAIN Merge(Put(o), fields) <=>
               \/ k = "message" /\ r.body # NULL
               \/ k = "service" /\ r.service_name # NULL
               \/ k \in DOMAIN fields
  BY <1>5, <1>6
<1>9. /\ r.body # NULL => Merge(Put(o), fields)["message"] = r.body
      /\ r.service_name # NULL => Merge(Put(o), fields)["service"] = r.service_name
  BY <1>1, <1>5, <1>6
<1>10. \A k \in DOMAIN fields :
              \/ k = "message" /\ r.body # NULL
              \/ k = "service" /\ r.service_name # NULL
              \/ Merge(Put(o), fields)[k] = fields[k]
  BY <1>5, <1>6
<1> QED
  BY <1>2, <1>7, <1>8, <1>9, <1>10 DEF fields

-----------------------------------------------------------------------------
(* Times                                                                   *)

\* A text is the whole seconds below its time and a fraction of a second.
LEMMA TextOf ==
  ASSUME NEW n \in Int
  PROVE  LET text == FormatRfc3339Nanos(n) IN
         /\ text.seconds \in Int
         /\ text.fraction \in 0..NanosPerSecond - 1
         /\ n = text.seconds * NanosPerSecond + text.fraction
<1> DEFINE s == Quotient(n, NanosPerSecond)
           f == Remainder(n, NanosPerSecond)
<1>1. /\ s \in Int /\ f \in Int
      /\ n = s * NanosPerSecond + f
      /\ -NanosPerSecond < f /\ f < NanosPerSecond
  BY TimeTextsAssumption, SMT DEF Quotient, Remainder
<1> HIDE DEF s, f
<1>2. (s - 1) * NanosPerSecond = s * NanosPerSecond - NanosPerSecond
  BY <1>1, TimeTextsAssumption, SMT
<1>3. FormatRfc3339Nanos(n) = IF f < 0 THEN [seconds |-> s - 1, fraction |-> f + NanosPerSecond]
                              ELSE [seconds |-> s, fraction |-> f]
  BY DEF FormatRfc3339Nanos, s, f
<1> HIDE DEF s, f
<1> DEFINE product == s * NanosPerSecond
<1>4. product \in Int
  BY <1>1, TimeTextsAssumption
<1>5. CASE f < 0
  <2>1. /\ FormatRfc3339Nanos(n).seconds = s - 1
        /\ FormatRfc3339Nanos(n).fraction = f + NanosPerSecond
    BY <1>3, <1>5
  <2>2. f + NanosPerSecond \in 0..NanosPerSecond - 1
    BY <1>1, <1>5, TimeTextsAssumption
  <2>3. n = (s - 1) * NanosPerSecond + (f + NanosPerSecond)
    BY <1>1, <1>2, <1>4, TimeTextsAssumption
  <2> QED
    BY <1>1, <2>1, <2>2, <2>3
<1>6. CASE ~(f < 0)
  <2>1. FormatRfc3339Nanos(n).seconds = s /\ FormatRfc3339Nanos(n).fraction = f
    BY <1>3, <1>6
  <2>2. f \in 0..NanosPerSecond - 1
    BY <1>1, <1>6, TimeTextsAssumption
  <2>3. n = s * NanosPerSecond + f
    BY <1>1
  <2> QED
    BY <1>1, <2>1, <2>2, <2>3
<1> QED
  BY <1>5, <1>6

\* Division by a positive number.
LEMMA Division ==
  ASSUME NEW a \in Int, NEW d \in Nat \ {0}
  PROVE  /\ a \div d \in Int /\ a % d \in 0..d - 1
         /\ a = (a \div d) * d + (a % d)
BY SMT

\* A quotient and a remainder in range are those of the division.
LEMMA DivisionIsUnique ==
  ASSUME NEW a \in Int, NEW d \in Nat \ {0}, NEW q \in Int, NEW r \in 0..d - 1, a = q * d + r
  PROVE  a % d = r
<1> DEFINE p == a \div d
           t == a % d
<1>1. p \in Int /\ t \in 0..d - 1 /\ a = p * d + t
  BY Division
<1> HIDE DEF p, t
<1>2. CASE p = q
  BY <1>1, <1>2, SMT DEF t
<1>3. CASE p >= q + 1
  <2>1. p * d >= (q + 1) * d /\ (q + 1) * d = q * d + d
    BY <1>1, <1>3, SMT
  <2> QED
    BY <1>1, <2>1, SMT
<1>4. CASE q >= p + 1
  <2>1. q * d >= (p + 1) * d /\ (p + 1) * d = p * d + d
    BY <1>1, <1>4, SMT
  <2> QED
    BY <1>1, <2>1, SMT
<1> QED
  BY <1>1, <1>2, <1>3, <1>4

\* Where a time lies: the start of its microsecond and the part of it that is left.
LEMMA MicrosOf ==
  ASSUME NEW n \in Int
  PROVE  LET text == FormatRfc3339Nanos(n) IN
         /\ Micros(text) \in Int /\ Micros(text) * NanosPerMicro \in Int
         /\ text.fraction % NanosPerMicro = n % NanosPerMicro
         /\ n % NanosPerMicro \in 0..NanosPerMicro - 1
         /\ n = Micros(text) * NanosPerMicro + (n % NanosPerMicro)
<1> DEFINE text  == FormatRfc3339Nanos(n)
           s     == text.seconds
           f     == text.fraction
           units == NanosPerSecond \div NanosPerMicro
           q     == f \div NanosPerMicro
           r     == f % NanosPerMicro
<1>1. s \in Int /\ f \in 0..NanosPerSecond - 1 /\ n = s * NanosPerSecond + f
  BY TextOf
<1>2. /\ units \in Int /\ NanosPerSecond = units * NanosPerMicro
      /\ NanosPerMicro \in Nat \ {0} /\ NanosPerSecond \in Nat \ {0}
  BY TimeTextsAssumption, Division
<1> HIDE DEF text, s
<1>3. q \in Int /\ r \in 0..NanosPerMicro - 1 /\ f = q * NanosPerMicro + r
  <2>1. f \in Int
    BY <1>1, <1>2
  <2> HIDE DEF f
  <2> QED
    BY <1>2, <2>1, Division
<1>4. Micros(text) = s * units + q
  BY DEF Micros, s
<1> HIDE DEF f, units, q, r
<1>5. (s * units + q) * NanosPerMicro = s * (units * NanosPerMicro) + q * NanosPerMicro
  BY <1>1, <1>2, <1>3, SMT
<1>6. (s * units + q) * NanosPerMicro = s * NanosPerSecond + q * NanosPerMicro
  BY <1>2, <1>5
<1>7. /\ s * units + q \in Int
      /\ (s * units + q) * NanosPerMicro \in Int
      /\ s * NanosPerSecond \in Int /\ q * NanosPerMicro \in Int
  BY <1>1, <1>2, <1>3, SMT
<1>8. n = (s * units + q) * NanosPerMicro + r
  BY <1>1, <1>3, <1>6, <1>7
<1>9. n % NanosPerMicro = r
  BY <1>2, <1>3, <1>7, <1>8, DivisionIsUnique
<1> QED
  BY <1>3, <1>4, <1>7, <1>8, <1>9 DEF text, f, r

\* A time is read back as it was written or not at all.
LEMMA ReadAsWritten ==
  ASSUME NEW n \in Int
  PROVE  /\ ParseRfc3339ToNanos(FormatRfc3339Nanos(n)) \subseteq {n}
         /\ FormatRfc3339Nanos(n) \in [seconds : Int, fraction : 0..NanosPerSecond - 1]
<1> DEFINE text == FormatRfc3339Nanos(n)
<1>1. /\ text.fraction % NanosPerMicro = n % NanosPerMicro
      /\ n = Micros(text) * NanosPerMicro + (n % NanosPerMicro)
  BY MicrosOf
<1>2. text.seconds \in Int /\ text.fraction \in 0..NanosPerSecond - 1
  BY TextOf
<1>3. text \in [seconds : Int, fraction : 0..NanosPerSecond - 1]
  BY <1>2 DEF FormatRfc3339Nanos
<1> QED
  BY <1>1, <1>3 DEF ParseRfc3339ToNanos

\* A time is read back as it was written, on both sides of the epoch and to the ends of
\* the range, but for the part of the lowest microsecond that is in it
\* (gcloud_json.cpp:64 and :23).
THEOREM WrittenTimesAreRead ==
  \A n \in Nanos : Readable(n) => ParseRfc3339ToNanos(FormatRfc3339Nanos(n)) = {n}
<1> SUFFICES ASSUME NEW n \in Nanos, Readable(n)
             PROVE  ParseRfc3339ToNanos(FormatRfc3339Nanos(n)) = {n}
  OBVIOUS
<1> DEFINE text == FormatRfc3339Nanos(n)
<1>1. /\ n \in Int /\ MinNanos \in Int /\ MaxNanos \in Int /\ n <= MaxNanos
      /\ n - (n % NanosPerMicro) >= MinNanos
  BY TimeTextsAssumption DEF Nanos, Readable
<1>2. /\ Micros(text) * NanosPerMicro \in Int
      /\ text.fraction % NanosPerMicro = n % NanosPerMicro
      /\ n % NanosPerMicro \in 0..NanosPerMicro - 1
      /\ n = Micros(text) * NanosPerMicro + (n % NanosPerMicro)
  BY <1>1, MicrosOf
<1>3. n % NanosPerMicro \in Nat
  BY <1>2, TimeTextsAssumption
<1> DEFINE start == Micros(text) * NanosPerMicro
           left  == n % NanosPerMicro
<1>4. start \in Int /\ left \in Nat /\ n = start + left /\ n - left >= MinNanos
  BY <1>1, <1>2, <1>3
<1> HIDE DEF start, left
<1>5. start \in Nanos
  BY <1>1, <1>4 DEF Nanos
<1>6. ParseRfc3339ToNanos(text) = IF start \in Nanos THEN {start + left} ELSE {}
  BY <1>2 DEF ParseRfc3339ToNanos, start, left
<1> QED
  BY <1>4, <1>5, <1>6

\* A product grows with its factor.
LEMMA Multiply ==
  ASSUME NEW a \in Int, NEW b \in Int, a <= b, NEW d \in Nat \ {0}
  PROVE  a * d <= b * d /\ a * d \in Int /\ b * d \in Int
BY SMT

\* Milliseconds that are not refused are nanoseconds in range (send_logs.cpp).
LEMMA MillisInRange ==
  ASSUME NEW n \in Int, n <= Quotient(MaxNanos, NanosPerMilli), n >= Quotient(MinNanos, NanosPerMilli)
  PROVE  n * NanosPerMilli \in Nanos
<1> DEFINE d == NanosPerMilli
           high == MaxNanos \div d
           low  == (-MinNanos) \div d
<1>1. d \in Nat \ {0} /\ MinNanos \in Int /\ MaxNanos \in Int /\ MinNanos <= 0 /\ 0 <= MaxNanos
  BY TimesAssumption, TimeTextsAssumption DEF Nanos
<1>2. Quotient(MaxNanos, d) = high
  BY <1>1 DEF Quotient
<1>3. high \in Int /\ high * d <= MaxNanos
  <2>1. MaxNanos % d \in 0..d - 1 /\ MaxNanos = high * d + (MaxNanos % d) /\ high \in Int
    BY <1>1, Division
  <2>2. high * d \in Int
    BY <1>1, <2>1, Multiply
  <2> HIDE DEF d, high
  <2> QED
    BY <1>1, <2>1, <2>2
<1>4. low \in Int /\ low * d <= -MinNanos
  <2>1. -MinNanos \in Int
    BY <1>1
  <2>2. (-MinNanos) % d \in 0..d - 1 /\ -MinNanos = low * d + ((-MinNanos) % d) /\ low \in Int
    BY <1>1, <2>1, Division
  <2>3. low * d \in Int
    BY <1>1, <2>2, Multiply
  <2> HIDE DEF d, low
  <2> QED
    BY <1>1, <2>2, <2>3
<1>5. Quotient(MinNanos, d) = -low
  <2>1. CASE MinNanos = 0
    <3>1. 0 \div d = 0
      BY <1>1, SMT
    <3>2. low = 0 /\ Quotient(MinNanos, d) = 0
      BY <2>1, <3>1 DEF Quotient
    <3> QED
      BY <3>2
  <2>2. CASE MinNanos < 0
    BY <1>1, <2>2 DEF Quotient
  <2> QED
    BY <1>1, <2>1, <2>2
<1> HIDE DEF d, high, low
<1>6. n * d <= high * d /\ n * d \in Int
  BY <1>1, <1>2, <1>3, Multiply DEF d
<1>7. (-low) * d <= n * d /\ (-low) * d = -(low * d)
  <2>1. -low \in Int /\ -low <= n
    BY <1>4, <1>5 DEF d
  <2>2. (-low) * d <= n * d
    BY <1>1, <2>1, Multiply
  <2> QED
    BY <1>1, <1>4, <2>2, SMT
<1>8. low * d \in Int /\ high * d \in Int
  BY <1>1, <1>3, <1>4, Multiply
<1>9. MinNanos <= n * d /\ n * d <= MaxNanos
  BY <1>1, <1>3, <1>4, <1>6, <1>7, <1>8
<1> QED
  BY <1>1, <1>6, <1>9 DEF Nanos, d

\* A time column gives one time in range, or none.
LEMMA ColumnTimes ==
  ASSUME NEW column, IsTimeColumn(column)
  PROVE  /\ AtMostOne(ReadTimestampNanos(column))
         /\ ReadTimestampNanos(column) \subseteq Nanos
<1> DEFINE InRange(t) == t.unit = "millis" => /\ t.n <= Quotient(MaxNanos, NanosPerMilli)
                                              /\ t.n >= Quotient(MinNanos, NanosPerMilli)
           Value(t) == IF t.unit = "nanos" THEN t.n ELSE t.n * NanosPerMilli
<1>1. \A n : n \in ReadTimestampNanos(column) <=> \E t \in column : InRange(t) /\ n = Value(t)
  BY DEF ReadTimestampNanos
<1>2. \A s, t \in column : s = t
  BY DEF IsTimeColumn, AtMostOne
<1>3. ASSUME NEW t \in column, InRange(t)
      PROVE  Value(t) \in Nanos
  <2>1. \/ t.unit = "nanos" /\ t.n \in Nanos
        \/ t.unit = "millis" /\ t.n \in Int
    BY DEF IsTimeColumn
  <2> QED
    BY <1>3, <2>1, MillisInRange
<1> HIDE DEF InRange, Value
<1> QED
  BY <1>1, <1>2, <1>3 DEF AtMostOne

\* Every row has a time, its own if that is in range.
LEMMA TimestampIs ==
  ASSUME NEW r, IsRow(r)
  PROVE  /\ Timestamp(r) \in Nanos
         /\ \A n \in ReadTimestampNanos(r.time) : Timestamp(r) = n
         /\ ReadTimestampNanos(r.time) = {} =>
              \A n \in ReadTimestampNanos(r.observed_time) : Timestamp(r) = n
         /\ ReadTimestampNanos(r.time) = {} /\ ReadTimestampNanos(r.observed_time) = {} => Timestamp(r) = Now
<1>1. /\ AtMostOne(ReadTimestampNanos(r.time)) /\ ReadTimestampNanos(r.time) \subseteq Nanos
      /\ AtMostOne(ReadTimestampNanos(r.observed_time)) /\ ReadTimestampNanos(r.observed_time) \subseteq Nanos
  BY ColumnTimes DEF IsRow
<1>2. Now \in Nanos
  BY TimesAssumption DEF Readable
<1>3. CASE ReadTimestampNanos(r.time) # {}
  <2>1. Timestamp(r) = CHOOSE n \in ReadTimestampNanos(r.time) : TRUE
    BY <1>3 DEF Timestamp
  <2>2. Timestamp(r) \in ReadTimestampNanos(r.time)
    BY <1>3, <2>1
  <2> QED
    BY <1>1, <1>3, <2>2 DEF AtMostOne
<1>4. CASE ReadTimestampNanos(r.time) = {} /\ ReadTimestampNanos(r.observed_time) # {}
  <2>1. Timestamp(r) = CHOOSE n \in ReadTimestampNanos(r.observed_time) : TRUE
    BY <1>4 DEF Timestamp
  <2>2. Timestamp(r) \in ReadTimestampNanos(r.observed_time)
    BY <1>4, <2>1
  <2> QED
    BY <1>1, <1>4, <2>2 DEF AtMostOne
<1>5. CASE ReadTimestampNanos(r.time) = {} /\ ReadTimestampNanos(r.observed_time) = {}
  BY <1>2, <1>5 DEF Timestamp
<1> QED
  BY <1>3, <1>4, <1>5

-----------------------------------------------------------------------------
(* A row, its entry and its copy                                           *)

EntryOf(r) == Stored(BuildGcloudWriteBody(r))
Copy(r)    == MapEntry(EntryOf(r))

\* The fields of the entry of a row.
LEMMA EntryFields ==
  ASSUME NEW r
  PROVE  /\ EntryOf(r).log_name = LogName(r)
         /\ EntryOf(r).type = FirstOf(<<r.resource_type, r.resource_attributes.type, "global">>)
         /\ EntryOf(r).resource_labels = WrittenResource(r)
         /\ EntryOf(r).timestamp = {FormatRfc3339Nanos(Timestamp(r))}
         /\ EntryOf(r).received = {FormatRfc3339Nanos(Now)}
         /\ EntryOf(r).severity = Severity(r)
         /\ EntryOf(r).insert_id = InsertId(r)
         /\ EntryOf(r).trace = r.trace_id
         /\ EntryOf(r).span_id = r.span_id
         /\ EntryOf(r).trace_sampled = IF r.trace_id = << >> THEN {} ELSE {IF Sampled(r) THEN 1 ELSE 0}
         /\ EntryOf(r).labels = Labels(r)
         /\ EntryOf(r).json_payload = Payload(r)
         /\ EntryOf(r).text_payload = IF Payload(r) = {} THEN r.body ELSE NULL
         /\ EntryOf(r).proto_payload = FALSE
         /\ EntryOf(r).context = Nothing
BY DEF EntryOf, Stored, BuildGcloudWriteBody, WrittenResource

\* The payload the reader looks at.
PayloadOf(e) == IF e.json_payload = {} THEN Nothing ELSE CHOOSE p \in e.json_payload : TRUE

\* The columns of the row of an entry.
LEMMA RowFields ==
  ASSUME NEW e
  PROVE  LET m == MapEntry(e) IN
         /\ m.time = TimestampValue(e.timestamp)
         /\ m.observed_time = IF TimestampValue(e.received) # {} THEN TimestampValue(e.received)
                              ELSE TimestampValue(e.timestamp)
         /\ m.trace_id = ExtractTraceId(e.trace)
         /\ m.span_id = e.span_id
         /\ m.service_name = ServiceName(e, PayloadOf(e))
         /\ m.service_namespace = ServiceNamespace(e)
         /\ m.service_instance_id = ServiceInstance(e)
         /\ m.severity_text = e.severity
         /\ m.severity_number = SeverityToNumber(e.severity)
         /\ m.body = BuildBody(e)
         /\ m.resource_attributes = ResourceAttributes(e)
         /\ m.log_attributes = LogAttributes(e, PayloadOf(e))
         /\ m.flags = e.trace_sampled
         /\ m.trace_sampled = {}
         /\ m.insert_id = NULL
         /\ m.log_name = {}
         /\ m.log_id = << >>
         /\ m.resource_type = NULL
BY DEF MapEntry, PayloadOf

\* What a payload says, and the text of one that says nothing.
Whole       == "{..}"
SaidBody(o) == LookupStr(o, <<"message", "msg">>, Whole)

LEMMA SaidIs ==
  ASSUME NEW o
  PROVE  SaidBody(o) = IF "message" \in DOMAIN Texts(o) THEN o["message"]
                       ELSE IF "msg" \in DOMAIN Texts(o) THEN o["msg"] ELSE Whole
BY LookupTwo DEF SaidBody

\* The body of an entry.
LEMMA BodyOf ==
  ASSUME NEW e
  PROVE  /\ e.text_payload # NULL => BuildBody(e) = e.text_payload
         /\ e.text_payload = NULL /\ e.json_payload # {} => BuildBody(e) = SaidBody(PayloadOf(e))
         /\ e.text_payload = NULL /\ e.json_payload = {} =>
              BuildBody(e) = IF e.proto_payload THEN Whole ELSE NULL
BY Zenon DEF BuildBody, SaidBody, PayloadOf, Whole

\* The payload of the entry of a row.
LEMMA PayloadOfEntry ==
  ASSUME NEW r
  PROVE  PayloadOf(EntryOf(r)) = IF r.log_attributes.fields = Nothing THEN Nothing
                                 ELSE Merge(Message(r), r.log_attributes.fields)
<1>1. EntryOf(r).json_payload = Payload(r)
  BY EntryFields
<1>2. CASE r.log_attributes.fields = Nothing
  BY <1>1, <1>2 DEF PayloadOf, Payload
<1>3. CASE r.log_attributes.fields # Nothing
  <2> DEFINE p == Merge(Message(r), r.log_attributes.fields)
  <2>1. EntryOf(r).json_payload = {p}
    BY <1>1, <1>3 DEF Payload
  <2> HIDE DEF p
  <2>2. PayloadOf(EntryOf(r)) = p
    BY <2>1 DEF PayloadOf
  <2> QED
    BY <1>3, <2>2 DEF p
<1> QED
  BY <1>2, <1>3

-----------------------------------------------------------------------------
(* A row that was sent is read back                                        *)

\* The row at hand is the copy of the one that was sent.
IsRead ==
  /\ IsRow(sent) /\ ~Refused(sent)
  /\ entry = EntryOf(sent)
  /\ row = MapEntry(entry)

\* When it was,
LEMMA TimeIsReadBack ==
  ASSUME IsRead
  PROVE  TimeReadsBack
<1> SUFFICES ASSUME NEW n \in ReadTimestampNanos(sent.time), Readable(n)
             PROVE  row.time = {[unit |-> "nanos", n |-> n]}
  BY DEF TimeReadsBack
<1>1. n \in Nanos /\ Timestamp(sent) = n
  BY TimestampIs DEF IsRead, Readable
<1>2. ParseRfc3339ToNanos(FormatRfc3339Nanos(n)) = {n}
  BY <1>1, WrittenTimesAreRead
<1>3. entry.timestamp = {FormatRfc3339Nanos(n)}
  BY <1>1, EntryFields DEF IsRead
<1>4. row.time = TimestampValue(entry.timestamp)
  BY RowFields DEF IsRead
<1> DEFINE text == FormatRfc3339Nanos(n)
<1>5. UNION {ParseRfc3339ToNanos(t) : t \in {text}} = ParseRfc3339ToNanos(text)
  OBVIOUS
<1>6. TimestampValue({text}) = {[unit |-> "nanos", n |-> m] : m \in {n}}
  BY <1>2, <1>5 DEF TimestampValue
<1> QED
  BY <1>3, <1>4, <1>6

\* which trace it belongs to,
LEMMA TraceIsReadBack ==
  ASSUME IsRead
  PROVE  TraceReadsBack
<1>1. /\ entry.trace = sent.trace_id /\ entry.span_id = sent.span_id
      /\ entry.trace_sampled = IF sent.trace_id = << >> THEN {} ELSE {IF Sampled(sent) THEN 1 ELSE 0}
  BY EntryFields DEF IsRead
<1>2. row.trace_id = ExtractTraceId(entry.trace) /\ row.span_id = entry.span_id /\ row.flags = entry.trace_sampled
  BY RowFields DEF IsRead
<1>3. ASSUME Len(sent.trace_id) = 1
      PROVE  ExtractTraceId(sent.trace_id) = sent.trace_id
  <2>1. {i \in 2..Len(sent.trace_id) - 1 : sent.trace_id[i] = "traces"} = {}
    BY <1>3
  <2> QED
    BY <1>3, <2>1 DEF ExtractTraceId
<1> QED
  BY <1>1, <1>2, <1>3 DEF TraceReadsBack

\* A severity given as a number keeps its band.
LEMMA SeverityOfNumber ==
  ASSUME NEW n \in 0..24
  PROVE  /\ SeverityNumberToGcloud(n) \in Names
         /\ Band(SeverityToNumber(SeverityNumberToGcloud(n))) = Band(n)
<1>1. \/ n \in 1..8 /\ SeverityNumberToGcloud(n) = "DEBUG"
      \/ n \in 9..12 /\ SeverityNumberToGcloud(n) = "INFO"
      \/ n \in 13..16 /\ SeverityNumberToGcloud(n) = "WARNING"
      \/ n \in 17..20 /\ SeverityNumberToGcloud(n) = "ERROR"
      \/ n = 21 /\ SeverityNumberToGcloud(n) = "CRITICAL"
      \/ n = 22 /\ SeverityNumberToGcloud(n) = "ALERT"
      \/ n \in 23..24 /\ SeverityNumberToGcloud(n) = "EMERGENCY"
      \/ n = 0 /\ SeverityNumberToGcloud(n) = "DEFAULT"
  BY DEF SeverityNumberToGcloud
<1>2. /\ SeverityToNumber("DEBUG") = 5 /\ SeverityToNumber("INFO") = 9
      /\ SeverityToNumber("WARNING") = 13 /\ SeverityToNumber("ERROR") = 17
      /\ SeverityToNumber("CRITICAL") = 21 /\ SeverityToNumber("ALERT") = 22
      /\ SeverityToNumber("EMERGENCY") = 24 /\ SeverityToNumber("DEFAULT") = 0
  BY DEF SeverityToNumber
<1>3. SeverityNumberToGcloud(n) \in Names
  BY <1>1 DEF Names
<1>4. Band(SeverityToNumber(SeverityNumberToGcloud(n))) = Band(n)
  BY <1>1, <1>2 DEF Band
<1> QED
  BY <1>3, <1>4

\* how bad it was,
LEMMA SeverityIsReadBack ==
  ASSUME IsRead
  PROVE  SeverityReadsBack
<1>1. row.severity_text = Severity(sent) /\ row.severity_number = SeverityToNumber(Severity(sent))
  <2>1. entry.severity = Severity(sent)
    BY EntryFields DEF IsRead
  <2>2. row.severity_text = entry.severity /\ row.severity_number = SeverityToNumber(entry.severity)
    BY RowFields DEF IsRead
  <2> QED
    BY <2>1, <2>2
<1>2. Severity(sent) = IF NormalizeSeverity(sent.severity_text) # NULL THEN NormalizeSeverity(sent.severity_text)
                       ELSE SeverityNumberToGcloud(sent.severity_number)
  BY FirstOfTwo DEF Severity
<1>3. sent.severity_text \in Names => NormalizeSeverity(sent.severity_text) = sent.severity_text
  BY DEF NormalizeSeverity, Names
<1>4. sent.severity_text \in Names => sent.severity_text # NULL
  BY NullIsNoName
<1> QED
  BY <1>1, <1>2, <1>3, <1>4, SeverityOfNumber DEF SeverityReadsBack

\* what it says,
LEMMA BodyIsReadBack ==
  ASSUME IsRead
  PROVE  BodyReadsBack
<1> DEFINE fields == sent.log_attributes.fields
           p == Merge(Message(sent), fields)
<1>1. row.body = BuildBody(entry)
  BY RowFields DEF IsRead
<1>2. /\ entry.json_payload = Payload(sent)
      /\ entry.text_payload = IF Payload(sent) = {} THEN sent.body ELSE NULL
      /\ entry.proto_payload = FALSE
  BY EntryFields DEF IsRead
<1>3. Payload(sent) = IF fields = Nothing THEN {} ELSE {p}
  BY DEF Payload
<1>4. CASE fields = Nothing
  <2>1. entry.json_payload = {} /\ entry.text_payload = sent.body
    BY <1>2, <1>3, <1>4
  <2>2. row.body = sent.body
    BY <1>1, <1>2, <2>1, BodyOf
  <2> QED
    BY <2>2 DEF BodyReadsBack
<1>5. CASE fields # Nothing /\ sent.body # NULL
  <2>1. entry.json_payload = {p} /\ entry.text_payload = NULL /\ PayloadOf(entry) = p
    BY <1>2, <1>3, <1>5, PayloadOfEntry DEF IsRead
  <2>2. /\ "message" \in DOMAIN p /\ p["message"] = sent.body
        /\ sent.body \in STRING
    <3>1. IsRow(sent)
      BY DEF IsRead
    <3>2. "message" \in DOMAIN p /\ p["message"] = sent.body
      BY <1>5, <3>1, PayloadIs
    <3> QED
      BY <3>1, <3>2 DEF IsRow
  <2> HIDE DEF p
  <2>3. "message" \in DOMAIN Texts(p)
    BY <2>2, PutTexts, TextsAssumption
  <2>4. SaidBody(p) = sent.body
    BY <2>2, <2>3, SaidIs
  <2>5. row.body = SaidBody(p)
    BY <1>1, <2>1, BodyOf
  <2> QED
    BY <2>4, <2>5 DEF BodyReadsBack
<1>6. CASE fields # Nothing /\ sent.body = NULL
  BY <1>6 DEF BodyReadsBack
<1> QED
  BY <1>4, <1>5, <1>6

\* The labels of both kinds are read back under their snake case.
LEMMA LabelsAreReadBack ==
  ASSUME IsRead
  PROVE  /\ row.log_attributes.labels = SnakeLabels(Labels(sent))
         /\ row.resource_attributes.labels = SnakeLabels(WrittenResource(sent))
         /\ ResourceAttributes(entry).labels = SnakeLabels(WrittenResource(sent))
         /\ row.log_attributes.fields = Merge(Nothing, PayloadOf(entry))
         /\ \A k \in DOMAIN Labels(sent) :
              /\ SnakeCase[k] \in DOMAIN SnakeLabels(Labels(sent))
              /\ SnakeLabels(Labels(sent))[SnakeCase[k]] = Labels(sent)[k]
         /\ \A k \in DOMAIN WrittenResource(sent) :
              /\ SnakeCase[k] \in DOMAIN SnakeLabels(WrittenResource(sent))
              /\ SnakeLabels(WrittenResource(sent))[SnakeCase[k]] = WrittenResource(sent)[k]
<1>1. IsRow(sent)
  BY DEF IsRead
<1>2. entry.labels = Labels(sent) /\ entry.resource_labels = WrittenResource(sent) /\ entry.context = Nothing
  BY EntryFields DEF IsRead
<1>3. row.resource_attributes = ResourceAttributes(entry) /\ row.log_attributes = LogAttributes(entry, PayloadOf(entry))
  BY RowFields DEF IsRead
<1>4. /\ ResourceAttributes(entry).labels = SnakeLabels(entry.resource_labels)
      /\ LogAttributes(entry, PayloadOf(entry)).labels = SnakeLabels(entry.labels)
      /\ LogAttributes(entry, PayloadOf(entry)).fields = Merge(entry.context, PayloadOf(entry))
  BY DEF ResourceAttributes, LogAttributes
<1>5. IsLabels(Labels(sent)) /\ Put(Texts(Labels(sent))) = Labels(sent)
  BY <1>1, LabelsAre
<1>6. OneSpelling(DOMAIN Labels(sent))
  BY <1>1 DEF IsRow
<1>7. IsLabels(WrittenResource(sent)) /\ Put(Texts(WrittenResource(sent))) = WrittenResource(sent)
  BY <1>1, WrittenResourceIs
<1>8. OneSpelling(DOMAIN WrittenResource(sent))
  <2> DEFINE keys == {"project_id"} \cup DOMAIN Put(Texts(sent.resource_attributes.labels))
  <2>1. OneSpelling(keys)
    BY <1>1 DEF IsRow
  <2>2. DOMAIN WrittenResource(sent) = keys
    BY <1>1, WrittenResourceIs
  <2> QED
    BY <2>1, <2>2
<1>9. \A k \in DOMAIN Labels(sent) :
              /\ SnakeCase[k] \in DOMAIN SnakeLabels(Labels(sent))
              /\ SnakeLabels(Labels(sent))[SnakeCase[k]] = Labels(sent)[k]
  BY <1>5, <1>6, SnakeLabelsAre
<1>10. \A k \in DOMAIN WrittenResource(sent) :
              /\ SnakeCase[k] \in DOMAIN SnakeLabels(WrittenResource(sent))
              /\ SnakeLabels(WrittenResource(sent))[SnakeCase[k]] = WrittenResource(sent)[k]
  BY <1>7, <1>8, SnakeLabelsAre
<1> QED
  BY <1>2, <1>3, <1>4, <1>9, <1>10

\* An object without members.
LEMMA NothingIsEmpty ==
  /\ \A k : k \notin DOMAIN Nothing
  /\ IsGiven(Nothing) /\ IsObject(Nothing)
BY DEF Nothing, IsGiven, IsObject

\* What the reader finds in the payload it reads in the column of the attributes.
LEMMA FieldsAre ==
  ASSUME NEW p, IsObject(p)
  PROVE  Merge(Nothing, p) = p
<1> DEFINE m == Merge(Nothing, p)
<1>1. /\ \A k : k \in DOMAIN m <=> k \in DOMAIN p
      /\ \A k \in DOMAIN p : m[k] = p[k]
  BY NothingIsEmpty, MergeIs
<1>2. m = [k \in DOMAIN m |-> m[k]]
  BY MergeIsObject
<1>3. p = [k \in DOMAIN p |-> p[k]]
  BY DEF IsObject
<1> HIDE DEF m
<1>4. DOMAIN m = DOMAIN p
  BY <1>1
<1>5. m = p
  BY <1>1, <1>2, <1>3, <1>4
<1> QED
  BY <1>5 DEF m

\* The payload of the entry of a row is an object.
LEMMA PayloadIsObject ==
  ASSUME NEW r, IsRow(r)
  PROVE  IsObject(PayloadOf(EntryOf(r)))
BY PayloadIs, PayloadOfEntry, NothingIsEmpty

\* its attributes,
LEMMA AttributesAreReadBack ==
  ASSUME IsRead
  PROVE  AttributesReadBack
<1> DEFINE labels   == sent.log_attributes.labels
           fields   == sent.log_attributes.fields
           resource == sent.resource_attributes.labels
           own      == OwnLabels(sent)
<1>1. IsRow(sent)
  BY DEF IsRead
<1>2. ASSUME NEW k \in DOMAIN Put(Texts(labels))
      PROVE  \/ k \in {"service_name", "service_namespace", "service_instance_id"} /\ sent[k] # NULL
             \/ /\ SnakeCase[k] \in DOMAIN row.log_attributes.labels
                /\ row.log_attributes.labels[SnakeCase[k]] = Put(Texts(labels))[k]
  <2>1. Put(Texts(labels))[k] = labels[k]
    BY <1>2, PutTexts
  <2>2. k \in DOMAIN Labels(sent)
    BY <1>1, <1>2, LabelsAre
  <2>3. CASE k \in DOMAIN own
    <3>1. {sent.service_name, sent.service_namespace, sent.service_instance_id} \subseteq STRING
      BY <1>1 DEF IsRow
    <3>2. DOMAIN own \subseteq OwnNames
      BY <3>1, OwnLabelsAre
    <3>3. \/ k = "service_name" /\ sent.service_name # NULL
          \/ k = "service_namespace" /\ sent.service_namespace # NULL
          \/ k = "service_instance_id" /\ sent.service_instance_id # NULL
      BY <2>3, <3>1, <3>2, OwnLabelsAre DEF OwnNames
    <3> QED
      BY <3>3
  <2>4. CASE k \notin DOMAIN own
    <3>1. Labels(sent)[k] = labels[k]
      BY <1>1, <1>2, <2>4, LabelsAre
    <3> QED
      BY <2>1, <2>2, <3>1, LabelsAreReadBack
  <2> QED
    BY <2>3, <2>4
<1>3. ASSUME NEW k \in DOMAIN fields
      PROVE  \/ k = "message" /\ sent.body # NULL
             \/ k = "service" /\ sent.service_name # NULL
             \/ k \in DOMAIN row.log_attributes.fields /\ row.log_attributes.fields[k] = fields[k]
  <2> DEFINE p == Merge(Message(sent), fields)
  <2>1. fields # Nothing
    BY <1>3, NothingIsEmpty
  <2>2. PayloadOf(entry) = p
    BY <2>1, PayloadOfEntry DEF IsRead
  <2>3. IsObject(p) /\ k \in DOMAIN p
    BY <1>1, <1>3, PayloadIs
  <2>4. \/ k = "message" /\ sent.body # NULL
        \/ k = "service" /\ sent.service_name # NULL
        \/ p[k] = fields[k]
    BY <1>1, <1>3, PayloadIs
  <2>5. row.log_attributes.fields = Merge(Nothing, PayloadOf(entry))
    BY LabelsAreReadBack
  <2> HIDE DEF p
  <2>6. row.log_attributes.fields = p
    BY <2>2, <2>3, <2>5, FieldsAre
  <2> QED
    BY <2>3, <2>4, <2>6
<1>4. ASSUME NEW k \in DOMAIN Put(Texts(resource)) \ {"project_id"}
      PROVE  /\ SnakeCase[k] \in DOMAIN row.resource_attributes.labels
             /\ row.resource_attributes.labels[SnakeCase[k]] = Put(Texts(resource))[k]
  <2>1. Put(Texts(resource))[k] = resource[k]
    BY <1>4, PutTexts
  <2>2. k \in DOMAIN WrittenResource(sent) /\ WrittenResource(sent)[k] = resource[k]
    BY <1>1, <1>4, WrittenResourceIs
  <2> QED
    BY <2>1, <2>2, LabelsAreReadBack
<1> QED
  BY <1>2, <1>3, <1>4 DEF AttributesReadBack

\* An encoded log id is the id of a log, never empty.
LEMMA EncodedIsName ==
  ASSUME NEW id \in Seq(STRING)
  PROVE  EncodeLogId(id) \in Seq(STRING) \ {<< >>}
<1>1. CASE id = << >>
  <2>1. EncodeLogId(id) = <<"d">>
    BY <1>1 DEF EncodeLogId
  <2>2. <<"d">> \in Seq(STRING)
    BY Literals
  <2>3. <<"d">> # << >>
    OBVIOUS
  <2> QED
    BY <2>1, <2>2, <2>3
<1>2. CASE id # << >>
  <2> DEFINE code(c) == IF c = "/" THEN "%2F" ELSE c
  <2>1. EncodeLogId(id) = [i \in 1..Len(id) |-> code(id[i])]
    BY <1>2 DEF EncodeLogId
  <2>2. Len(id) \in Nat /\ Len(id) # 0
    BY <1>2
  <2>3. \A i \in 1..Len(id) : code(id[i]) \in STRING
    <3>1. \A i \in 1..Len(id) : id[i] \in STRING
      OBVIOUS
    <3> QED
      BY <3>1, CodeIsText, Zenon
  <2> HIDE DEF code
  <2>4. EncodeLogId(id) \in Seq(STRING) /\ Len(EncodeLogId(id)) = Len(id)
    BY <2>1, <2>2, <2>3
  <2> QED
    BY <2>2, <2>4
<1> QED
  BY <1>1, <1>2

\* A log name is one of the project, given or made of the log id,
LEMMA LogNameIs ==
  ASSUME NEW r, IsRow(r), ~Refused(r)
  PROVE  /\ LogName(r).parent = <<"gcp.project", Project>>
         /\ LogName(r).id \in Seq(STRING) \ {<< >>}
         /\ r.log_name = {} => LogName(r).id = EncodeLogId(LogId(r))
<1>1. CASE r.log_name = {}
  <2>1. LogId(r) \in Seq(STRING)
    BY DEF LogId, IsRow
  <2>2. LogName(r) = [parent |-> <<"gcp.project", Project>>, id |-> EncodeLogId(LogId(r))]
    BY <1>1 DEF LogName
  <2> QED
    BY <2>1, <2>2, EncodedIsName
<1>2. CASE r.log_name # {}
  <2>1. LogName(r) \in r.log_name
    BY <1>2 DEF LogName
  <2>2. \A name \in r.log_name : name.parent = <<"gcp.project", Project>> /\ name.id \in Seq(STRING) \ {<< >>}
    BY <1>2 DEF Refused, IsRow
  <2> QED
    BY <1>2, <2>1, <2>2
<1> QED
  BY <1>1, <1>2

\* and the reader takes it apart.
LEMMA LogNameIsKept ==
  ASSUME NEW r, IsRow(r), ~Refused(r)
  PROVE  LogNameAttributes(LogName(r)) = LogName(r)
<1>1. LogName(r).parent[1] = "gcp.project" /\ LogName(r).id # << >>
  BY LogNameIs
<1> QED
  BY <1>1 DEF LogNameAttributes, Parents

\* where it comes from,
LEMMA SourceIsReadBack ==
  ASSUME IsRead
  PROVE  SourceReadsBack
<1>1. entry.log_name = LogName(sent)
      /\ entry.type = FirstOf(<<sent.resource_type, sent.resource_attributes.type, "global">>)
  BY EntryFields DEF IsRead
<1>2. row.resource_attributes = ResourceAttributes(entry)
  BY RowFields DEF IsRead
<1>3. /\ ResourceAttributes(entry).parent = LogNameAttributes(entry.log_name).parent
      /\ ResourceAttributes(entry).log_id = LogNameAttributes(entry.log_name).id
      /\ ResourceAttributes(entry).type = entry.type
  BY DEF ResourceAttributes
<1>4. LogNameAttributes(entry.log_name) = LogName(sent)
  BY <1>1, LogNameIsKept DEF IsRead
<1>5. /\ LogName(sent).parent = <<"gcp.project", Project>>
      /\ sent.log_name = {} => LogName(sent).id = EncodeLogId(LogId(sent))
  BY LogNameIs DEF IsRead
<1> QED
  BY <1>1, <1>2, <1>3, <1>4, <1>5 DEF SourceReadsBack

\* A label that the service name or its kind is read from is in the copy if it was written.
LEMMA ResourceSays ==
  ASSUME IsRead, NEW k \in WrittenLabels \cup ReadLabels,
         k \notin DOMAIN ResourceAttributes(entry).labels
  PROVE  k \notin DOMAIN Texts(entry.resource_labels)
<1>1. entry.resource_labels = WrittenResource(sent)
  BY EntryFields DEF IsRead
<1>2. IsLabels(WrittenResource(sent)) /\ DOMAIN Texts(WrittenResource(sent)) = DOMAIN WrittenResource(sent)
  BY WrittenResourceIs DEF IsRead
<1>3. SUFFICES ASSUME k \in DOMAIN WrittenResource(sent)
               PROVE  FALSE
  BY <1>1, <1>2
<1>4. k \in DOMAIN SnakeCase
  BY <1>2, <1>3 DEF IsLabels
<1>5. SnakeCase[k] = k
  BY <1>4, SnakeCaseAssumption
<1> QED
  BY <1>3, <1>5, LabelsAreReadBack

\* A name that is not given in the labels of the resource is that of the column.
LEMMA OwnLabelIsRead ==
  ASSUME IsRead, NEW k \in OwnNames, k \in DOMAIN OwnLabels(sent), NEW otherwise
  PROVE  LookupStr(entry.labels, <<k>>, otherwise) = OwnLabels(sent)[k]
<1>1. IsRow(sent) /\ entry.labels = Labels(sent)
  BY EntryFields DEF IsRead
<1>2. k \in DOMAIN Texts(Labels(sent)) /\ Labels(sent)[k] = OwnLabels(sent)[k]
  BY <1>1, LabelsAre
<1> QED
  BY <1>1, <1>2, LookupOne

\* and the columns of the service, unless the resource says otherwise:
LEMMA NamespaceIsReadBack ==
  ASSUME IsRead, sent.service_namespace # NULL,
         \A k \in {"namespace_name", "namespace_id"} : k \notin DOMAIN ResourceAttributes(entry).labels
  PROVE  row.service_namespace = sent.service_namespace
<1>1. "namespace_name" \in ReadLabels /\ "namespace_id" \in ReadLabels
  BY DEF ReadLabels
<1>2. /\ "namespace_name" \notin DOMAIN Texts(entry.resource_labels)
      /\ "namespace_id" \notin DOMAIN Texts(entry.resource_labels)
  BY <1>1, ResourceSays
<1> DEFINE label == LookupStr(entry.labels, <<"service_namespace">>, NULL)
<1>3. LookupStr(entry.resource_labels, <<"namespace_name", "namespace_id">>, label) = label
  BY <1>2, LookupTwo
<1>4. label = sent.service_namespace
  <2>1. {sent.service_name, sent.service_namespace, sent.service_instance_id} \subseteq STRING
    BY DEF IsRead, IsRow
  <2>2. "service_namespace" \in DOMAIN OwnLabels(sent) /\ OwnLabels(sent)["service_namespace"] = sent.service_namespace
    BY <2>1, OwnLabelsAre
  <2>3. "service_namespace" \in OwnNames
    BY DEF OwnNames
  <2> QED
    BY <2>2, <2>3, OwnLabelIsRead
<1>5. row.service_namespace = LookupStr(entry.resource_labels, <<"namespace_name", "namespace_id">>, label)
  BY RowFields DEF IsRead, ServiceNamespace
<1> QED
  BY <1>3, <1>4, <1>5

\* its instance,
LEMMA InstanceIsReadBack ==
  ASSUME IsRead, sent.service_instance_id # NULL,
         \A k \in {"instance_id", "pod_name", "revision_name", "task_id"} :
           k \notin DOMAIN ResourceAttributes(entry).labels
  PROVE  row.service_instance_id = sent.service_instance_id
<1> DEFINE keys == <<"instance_id", "pod_name", "revision_name", "task_id">>
<1>1. \A j \in DOMAIN keys : keys[j] \in {"instance_id", "pod_name", "revision_name", "task_id"}
  OBVIOUS
<1>2. {"instance_id", "pod_name", "revision_name", "task_id"} \subseteq ReadLabels
  BY DEF ReadLabels
<1>3. \A k \in {"instance_id", "pod_name", "revision_name", "task_id"} :
        k \notin DOMAIN Texts(entry.resource_labels)
  BY <1>2, ResourceSays
<1> HIDE DEF keys
<1> DEFINE label == LookupStr(entry.labels, <<"service_instance_id">>, NULL)
<1>4. LookupStr(entry.resource_labels, keys, label) = label
  BY <1>1, <1>3, LookupMiss
<1>5. label = sent.service_instance_id
  <2>1. {sent.service_name, sent.service_namespace, sent.service_instance_id} \subseteq STRING
    BY DEF IsRead, IsRow
  <2>2. /\ "service_instance_id" \in DOMAIN OwnLabels(sent)
        /\ OwnLabels(sent)["service_instance_id"] = sent.service_instance_id
    BY <2>1, OwnLabelsAre
  <2>3. "service_instance_id" \in OwnNames
    BY DEF OwnNames
  <2> QED
    BY <2>2, <2>3, OwnLabelIsRead
<1>6. row.service_instance_id = LookupStr(entry.resource_labels, keys, label)
  BY RowFields DEF IsRead, ServiceInstance, keys
<1> QED
  BY <1>4, <1>5, <1>6

\* its name,
LEMMA ServiceNameIsReadBack ==
  ASSUME IsRead, sent.service_name # NULL, "service_name" \notin DOMAIN ResourceAttributes(entry).labels
  PROVE  row.service_name = sent.service_name
<1> DEFINE payload  == PayloadOf(entry)
           keys     == <<"service", "service_name", "serviceName", "service.name">>
           other    == LookupStr(entry.resource_labels, <<"function_name", "container_name", "job">>, NULL)
           label    == LookupStr(entry.labels, <<"service_name", "service">>, other)
           said     == LookupStr(payload, keys, label)
           resource == LookupStr(entry.resource_labels, <<"service_name">>, said)
<1>1. IsRow(sent) /\ sent.service_name \in STRING
  BY DEF IsRead, IsRow
<1>2. resource = said
  <2>1. "service_name" \in WrittenLabels
    BY DEF WrittenLabels
  <2>2. "service_name" \notin DOMAIN Texts(entry.resource_labels)
    BY <2>1, ResourceSays
  <2> QED
    BY <2>2, LookupOne
<1>3. label = sent.service_name
  <2>1. {sent.service_name, sent.service_namespace, sent.service_instance_id} \subseteq STRING
    BY <1>1 DEF IsRow
  <2>2. "service_name" \in DOMAIN OwnLabels(sent) /\ OwnLabels(sent)["service_name"] = sent.service_name
    BY <2>1, OwnLabelsAre
  <2>3. entry.labels = Labels(sent)
    BY EntryFields DEF IsRead
  <2>4. "service_name" \in DOMAIN Texts(Labels(sent)) /\ Labels(sent)["service_name"] = sent.service_name
    BY <1>1, <2>2, LabelsAre
  <2> QED
    BY <2>3, <2>4, LookupTwo
<1>4. said = sent.service_name
  <2>1. DOMAIN keys \subseteq Int /\ 1 \in DOMAIN keys /\ keys[1] = "service" /\ \A j \in DOMAIN keys : ~(j < 1)
    OBVIOUS
  <2> HIDE DEF keys
  <2>2. CASE sent.log_attributes.fields = Nothing
    <3>1. payload = Nothing
      BY <2>2, PayloadOfEntry DEF IsRead
    <3>2. \A k : k \notin DOMAIN Texts(Nothing)
      BY NothingIsEmpty, PutTexts
    <3> QED
      BY <1>3, <3>1, <3>2, LookupMiss
  <2>3. CASE sent.log_attributes.fields # Nothing
    <3> DEFINE p == Merge(Message(sent), sent.log_attributes.fields)
    <3>1. payload = p
      BY <2>3, PayloadOfEntry DEF IsRead
    <3>2. "service" \in DOMAIN p /\ p["service"] = sent.service_name
      BY <1>1, PayloadIs
    <3> HIDE DEF p, payload
    <3>3. "service" \in DOMAIN Texts(p)
      BY <1>1, <3>2, PutTexts, TextsAssumption
    <3>4. LookupStr(p, keys, label) = p["service"]
      BY <2>1, <3>3, LookupHit
    <3> QED
      BY <3>1, <3>2, <3>4 DEF payload
  <2> QED
    BY <2>2, <2>3
<1>5. row.service_name = resource
  BY RowFields DEF IsRead, ServiceName
<1> QED
  BY <1>2, <1>4, <1>5

\* and so all three.
LEMMA ServiceIsReadBack ==
  ASSUME IsRead
  PROVE  ServiceReadsBack
BY ServiceNameIsReadBack, NamespaceIsReadBack, InstanceIsReadBack DEF ServiceReadsBack

-----------------------------------------------------------------------------
(* What is read is a row that can be sent                                  *)

\* One of a few positions is the least.
LEMMA MinOfFew ==
  ASSUME NEW S, S # {}, \A n \in S : n \in 1..4
  PROVE  Min(S) \in S
<1>1. CASE 1 \in S
  BY <1>1, MinIs
<1>2. CASE 1 \notin S /\ 2 \in S
  <2>1. \A n \in S : n \in Int /\ 2 <= n
    BY <1>2
  <2> QED
    BY <1>2, <2>1, MinIs
<1>3. CASE 1 \notin S /\ 2 \notin S /\ 3 \in S
  <2>1. \A n \in S : n \in Int /\ 3 <= n
    BY <1>3
  <2> QED
    BY <1>3, <2>1, MinIs
<1>4. CASE 1 \notin S /\ 2 \notin S /\ 3 \notin S
  <2>1. \A n \in S : n = 4
    BY <1>4
  <2> QED
    BY <1>4, <2>1, MinIs
<1> QED
  BY <1>1, <1>2, <1>3, <1>4

\* What is looked up is a text.
LEMMA LookupIsText ==
  ASSUME NEW o, IsObject(o), NEW keys, \A i \in DOMAIN keys : i \in 1..4, NEW otherwise \in STRING
  PROVE  LookupStr(o, keys, otherwise) \in STRING
<1> DEFINE hits == {i \in DOMAIN keys : keys[i] \in DOMAIN Texts(o)}
<1>1. CASE hits = {}
  BY <1>1 DEF LookupStr
<1>2. CASE hits # {}
  <2>1. Min(hits) \in hits
    BY <1>2, MinOfFew
  <2>2. keys[Min(hits)] \in DOMAIN Texts(o)
    BY <2>1
  <2>3. o[keys[Min(hits)]] \in STRING
    BY <2>2, PutTexts DEF IsObject
  <2> QED
    BY <1>2, <2>3 DEF LookupStr
<1> QED
  BY <1>1, <1>2

\* The members of two objects are an object.
LEMMA MergedAreObjects ==
  ASSUME NEW o, IsObject(o), NEW p, IsObject(p)
  PROVE  IsObject(Merge(o, p))
<1>1. /\ \A l \in DOMAIN o : o[l] \in STRING \cup {NotText}
      /\ \A l \in DOMAIN p : p[l] \in STRING \cup {NotText}
  BY DEF IsObject
<1> DEFINE m == Merge(o, p)
<1>2. /\ \A k : k \in DOMAIN m <=> k \in DOMAIN o \/ k \in DOMAIN p
      /\ \A k \in DOMAIN o : m[k] = o[k]
      /\ \A k \in DOMAIN p : k \notin DOMAIN o => m[k] = p[k]
  BY MergeIs
<1>3. m = [k \in DOMAIN m |-> m[k]]
  BY MergeIsObject
<1> HIDE DEF m
<1>4. \A k \in DOMAIN m : m[k] \in STRING \cup {NotText}
  BY <1>1, <1>2
<1> QED
  BY <1>3, <1>4 DEF IsObject, m

\* Labels are read in snake case.
LEMMA SnakeLabelsAreSnake ==
  ASSUME NEW labels, IsLabels(labels)
  PROVE  IsSnake(SnakeLabels(labels))
<1> DEFINE texts == Put(Texts(labels))
           snake == SnakeLabels(labels)
           chosen(k) == CHOOSE l \in DOMAIN texts : SnakeCase[l] = k
<1>1. IsGiven(texts) /\ \A l \in DOMAIN texts : l \in DOMAIN SnakeCase
  BY PutTexts, PutTextsAreGiven DEF IsLabels
<1>2. snake = [k \in {SnakeCase[l] : l \in DOMAIN texts} |-> texts[chosen(k)]]
  BY DEF SnakeLabels
<1>3. ASSUME NEW k, \E l \in DOMAIN texts : SnakeCase[l] = k
      PROVE  chosen(k) \in DOMAIN texts
  BY <1>3, Zenon
<1> HIDE DEF texts, snake, chosen
<1>4. snake = [k \in DOMAIN snake |-> snake[k]]
  BY <1>2
<1>5. ASSUME NEW k \in DOMAIN snake
      PROVE  /\ k \in DOMAIN SnakeCase /\ SnakeCase[k] = k
             /\ snake[k] \in STRING /\ snake[k] # NULL
  <2>1. PICK l \in DOMAIN texts : SnakeCase[l] = k
    BY <1>2
  <2>2. k \in DOMAIN SnakeCase /\ SnakeCase[k] = k
    BY <1>1, <2>1, SnakeCaseAssumption
  <2>3. snake[k] = texts[chosen(k)]
    BY <1>2
  <2>4. chosen(k) \in DOMAIN texts
    BY <1>3, <2>1
  <2> QED
    BY <1>1, <2>2, <2>3, <2>4 DEF IsGiven
<1> QED
  BY <1>4, <1>5 DEF IsSnake, IsGiven, snake

\* No marker is in what follows the only one there is.
LEMMA ExtractedTraces ==
  ASSUME NEW trace, IsTrace(trace)
  PROVE  /\ ExtractTraceId(trace) \in Seq(STRING)
         /\ \A i \in 2..Len(ExtractTraceId(trace)) - 1 : ExtractTraceId(trace)[i] # "traces"
         /\ (\A i \in 2..Len(trace) - 1 : trace[i] # "traces") => Len(ExtractTraceId(trace)) <= 1
         /\ Len(trace) = 1 => ExtractTraceId(trace) = trace
         /\ trace = << >> => ExtractTraceId(trace) = << >>
<1> DEFINE markers == {i \in 2..Len(trace) - 1 : trace[i] = "traces"}
<1>1. trace \in Seq(STRING) /\ \A i, j \in markers : i = j
  BY DEF IsTrace, AtMostOne
<1>2. CASE markers = {}
  <2>1. ExtractTraceId(trace) = IF Len(trace) = 1 THEN trace ELSE << >>
    BY <1>2 DEF ExtractTraceId
  <2>2. ExtractTraceId(trace) \in Seq(STRING) /\ Len(ExtractTraceId(trace)) <= 1
    <3>1. << >> \in Seq(STRING) /\ Len(<< >>) = 0
      OBVIOUS
    <3>2. CASE Len(trace) = 1
      <4>1. ExtractTraceId(trace) = trace
        BY <2>1, <3>2
      <4>2. trace \in Seq(STRING) /\ Len(trace) <= 1
        BY <3>2 DEF IsTrace
      <4> QED
        BY <4>1, <4>2, Zenon
    <3>3. CASE Len(trace) # 1
      BY <2>1, <3>1, <3>3
    <3> QED
      BY <3>2, <3>3
  <2> QED
    BY <2>1, <2>2
<1>3. ASSUME NEW m \in markers
      PROVE  /\ ExtractTraceId(trace) \in Seq(STRING)
             /\ \A i \in 2..Len(ExtractTraceId(trace)) - 1 : ExtractTraceId(trace)[i] # "traces"
             /\ Len(trace) # 1 /\ trace # << >>
             /\ ~ \A i \in 2..Len(trace) - 1 : trace[i] # "traces"
  <2>1. Min(markers) = m
    <3>1. \A n \in markers : n \in Int /\ m <= n
      BY <1>1
    <3> QED
      BY <3>1, MinIs
  <2>2. m \in 2..Len(trace) - 1 /\ trace[m] = "traces" /\ Len(trace) \in Nat
    BY <1>1
  <2>3. ExtractTraceId(trace) = SubSeq(trace, m + 1, Len(trace))
    BY <2>1 DEF ExtractTraceId
  <2> DEFINE rest == SubSeq(trace, m + 1, Len(trace))
  <2>4. /\ rest \in Seq(STRING) /\ Len(rest) = Len(trace) - m
        /\ \A i \in 1..Len(trace) - m : rest[i] = trace[m + i]
    BY <1>1, <2>2
  <2> HIDE DEF rest
  <2>5. ASSUME NEW i \in 2..Len(rest) - 1, rest[i] = "traces"
        PROVE  FALSE
    <3>1. m + i \in 2..Len(trace) - 1 /\ trace[m + i] = "traces"
      BY <2>2, <2>4, <2>5
    <3>2. m + i \in markers
      BY <3>1
    <3>3. m + i = m
      BY <1>1, <3>2
    <3> QED
      BY <2>2, <3>3
  <2>6. Len(trace) # 1 /\ trace # << >>
    BY <2>2
  <2>7. ~ \A i \in 2..Len(trace) - 1 : trace[i] # "traces"
    BY <2>2
  <2>8. ExtractTraceId(trace) = rest
    BY <2>3 DEF rest
  <2>9. \A i \in 2..Len(rest) - 1 : rest[i] # "traces"
    BY <2>5
  <2> QED
    BY <2>4, <2>6, <2>7, <2>8, <2>9
<1> QED
  BY <1>2, <1>3

\* The entry of a row is one that the reader may see.
LEMMA StoredIsEntry ==
  ASSUME NEW r, IsRow(r), ~Refused(r)
  PROVE  IsEntry(EntryOf(r))
<1> DEFINE e == EntryOf(r)
<1>1. /\ e.log_name = LogName(r) /\ e.resource_labels = WrittenResource(r)
      /\ e.timestamp = {FormatRfc3339Nanos(Timestamp(r))} /\ e.received = {FormatRfc3339Nanos(Now)}
      /\ e.trace = r.trace_id /\ e.labels = Labels(r) /\ e.json_payload = Payload(r)
      /\ e.text_payload = (IF Payload(r) = {} THEN r.body ELSE NULL) /\ e.context = Nothing
  BY EntryFields
<1> HIDE DEF e
<1>2. ASSUME NEW n \in Nanos
      PROVE  /\ FormatRfc3339Nanos(n) \in [seconds : Int, fraction : 0..NanosPerSecond - 1]
             /\ ParseRfc3339ToNanos(FormatRfc3339Nanos(n)) \subseteq Nanos
  <2>1. n \in Int
    BY TimeTextsAssumption DEF Nanos
  <2> QED
    BY <2>1, ReadAsWritten
<1>3. Timestamp(r) \in Nanos /\ Now \in Nanos
  BY TimestampIs, TimesAssumption DEF Readable
<1>4. \A text \in e.timestamp \cup e.received :
       /\ text \in [seconds : Int, fraction : 0..NanosPerSecond - 1]
       /\ ParseRfc3339ToNanos(text) \subseteq Nanos
  BY <1>1, <1>2, <1>3
<1>5. AtMostOne(e.timestamp) /\ AtMostOne(e.received)
  BY <1>1 DEF AtMostOne
<1>6. IsTrace(e.trace)
  BY <1>1 DEF IsRow
<1>7. e.text_payload \in STRING
  BY <1>1, Literals DEF IsRow
<1>8. AtMostOne(e.json_payload) /\ \A payload \in e.json_payload : IsObject(payload)
  BY <1>1, PayloadIs DEF AtMostOne
<1>9. IsObject(e.context)
  BY <1>1, NothingIsEmpty
<1>10. IsLabels(e.labels) /\ IsLabels(e.resource_labels)
  BY <1>1, LabelsAre, WrittenResourceIs
<1>11. e.log_name.id \in Seq(STRING)
  BY <1>1, LogNameIs
<1> QED
  BY <1>4, <1>5, <1>6, <1>7, <1>8, <1>9, <1>10, <1>11 DEF IsEntry, e

\* A time that is read is a time column.
LEMMA TimesReadAreColumns ==
  ASSUME NEW timestamp, AtMostOne(timestamp),
         \A text \in timestamp : ParseRfc3339ToNanos(text) \subseteq Nanos
  PROVE  /\ IsTimeColumn(TimestampValue(timestamp))
         /\ \A t \in TimestampValue(timestamp) : t \in [unit : {"nanos"}, n : Nanos]
<1> DEFINE times == UNION {ParseRfc3339ToNanos(text) : text \in timestamp}
<1>1. ASSUME NEW m \in times, NEW n \in times
      PROVE  m = n /\ m \in Nanos
  <2>1. PICK s \in timestamp : m \in ParseRfc3339ToNanos(s)
    OBVIOUS
  <2>2. PICK t \in timestamp : n \in ParseRfc3339ToNanos(t)
    OBVIOUS
  <2>3. s = t
    BY DEF AtMostOne
  <2>4. m = n
    BY <2>1, <2>2, <2>3 DEF ParseRfc3339ToNanos
  <2> QED
    BY <2>1, <2>4
<1> HIDE DEF times
<1>2. \A t : t \in TimestampValue(timestamp) <=> \E n \in times : t = [unit |-> "nanos", n |-> n]
  BY DEF TimestampValue, times
<1>3. \A t \in TimestampValue(timestamp) : t \in [unit : {"nanos"}, n : Nanos]
  BY <1>1, <1>2
<1>4. AtMostOne(TimestampValue(timestamp))
  BY <1>1, <1>2 DEF AtMostOne
<1> QED
  BY <1>3, <1>4 DEF IsTimeColumn

\* The columns of the service are texts, whoever wrote the entry,
LEMMA ServiceIsText ==
  ASSUME NEW e, IsEntry(e), NEW payload, IsObject(payload)
  PROVE  /\ ServiceName(e, payload) \in STRING
         /\ MapEntry(e).service_namespace \in STRING
         /\ MapEntry(e).service_instance_id \in STRING
<1>1. IsObject(e.labels) /\ IsObject(e.resource_labels)
  BY DEF IsEntry, IsLabels
<1> DEFINE name     == <<"service_name">>
           said     == <<"service", "service_name", "serviceName", "service.name">>
           label    == <<"service_name", "service">>
           other    == <<"function_name", "container_name", "job">>
           space    == <<"namespace_name", "namespace_id">>
           inLabels == <<"service_namespace">>
           instance == <<"instance_id", "pod_name", "revision_name", "task_id">>
           named    == <<"service_instance_id">>
<1>2. /\ \A i \in DOMAIN name : i \in 1..4
      /\ \A i \in DOMAIN said : i \in 1..4
      /\ \A i \in DOMAIN label : i \in 1..4
      /\ \A i \in DOMAIN other : i \in 1..4
  OBVIOUS
<1>3. /\ \A i \in DOMAIN space : i \in 1..4
      /\ \A i \in DOMAIN inLabels : i \in 1..4
      /\ \A i \in DOMAIN instance : i \in 1..4
      /\ \A i \in DOMAIN named : i \in 1..4
  OBVIOUS
<1> DEFINE a == LookupStr(e.resource_labels, other, NULL)
           b == LookupStr(e.labels, label, a)
           c == LookupStr(payload, said, b)
           d == LookupStr(e.labels, inLabels, NULL)
           f == LookupStr(e.labels, named, NULL)
<1>4. /\ ServiceName(e, payload) = LookupStr(e.resource_labels, name, c)
      /\ ServiceNamespace(e) = LookupStr(e.resource_labels, space, d)
      /\ ServiceInstance(e) = LookupStr(e.resource_labels, instance, f)
  BY DEF ServiceName, ServiceNamespace, ServiceInstance
<1> HIDE DEF name, said, label, other, space, inLabels, instance, named
<1>5. a \in STRING /\ d \in STRING /\ f \in STRING
  BY <1>1, <1>2, <1>3, LookupIsText, Literals
<1> HIDE DEF a, d, f
<1>6. b \in STRING
  BY <1>1, <1>2, <1>5, LookupIsText
<1> HIDE DEF b
<1>7. c \in STRING
  BY <1>2, <1>6, LookupIsText
<1> HIDE DEF c
<1>8. /\ ServiceName(e, payload) \in STRING
      /\ ServiceNamespace(e) \in STRING
      /\ ServiceInstance(e) \in STRING
  BY <1>1, <1>2, <1>3, <1>4, <1>5, <1>7, LookupIsText
<1> QED
  BY <1>8, RowFields

\* and so is the body.
LEMMA BodyIsText ==
  ASSUME NEW e, IsEntry(e)
  PROVE  BuildBody(e) \in STRING
<1>1. Whole \in STRING /\ e.text_payload \in STRING
  BY TextsAssumption, Zenon DEF Whole, IsEntry
<1>2. e.json_payload # {} => SaidBody(PayloadOf(e)) \in STRING
  <2>1. ASSUME e.json_payload # {}
        PROVE  IsObject(PayloadOf(e))
    BY <2>1 DEF IsEntry, PayloadOf
  <2> QED
    BY <1>1, <2>1, LookupIsText DEF SaidBody
<1> QED
  BY <1>1, <1>2, BodyOf, Literals

\* The labels that the sender writes are in snake case.
LEMMA SnakeKeys ==
  ASSUME NEW k \in WrittenLabels
  PROVE  k \in DOMAIN SnakeCase /\ SnakeCase[k] = k
BY SnakeCaseAssumption

\* What is read has no two labels of the same snake case, whoever wrote the entry.
LEMMA ReadLabelsAreSpelledOnce ==
  ASSUME NEW m, {m.service_name, m.service_namespace, m.service_instance_id} \subseteq STRING,
         IsSnake(m.log_attributes.labels), IsSnake(m.resource_attributes.labels)
  PROVE  /\ OneSpelling(DOMAIN Labels(m))
         /\ OneSpelling({"project_id"} \cup DOMAIN Put(Texts(m.resource_attributes.labels)))
<1> DEFINE labels   == m.log_attributes.labels
           resource == m.resource_attributes.labels
<1>1. Put(Texts(labels)) = labels /\ Put(Texts(resource)) = resource
  BY GivenStays DEF IsSnake
<1>2. DOMAIN OwnLabels(m) \subseteq WrittenLabels
  BY OwnLabelsAre DEF OwnNames, WrittenLabels
<1>3. \A k : k \in DOMAIN Labels(m) => k \in DOMAIN OwnLabels(m) \/ k \in DOMAIN labels
  <2>1. Labels(m) = Merge(OwnLabels(m), labels)
    BY <1>1 DEF Labels
  <2> QED
    BY <2>1, MergeIs
<1>4. \A k \in DOMAIN Labels(m) : SnakeCase[k] = k
  BY <1>2, <1>3, SnakeKeys DEF IsSnake
<1>5. "project_id" \in WrittenLabels
  BY DEF WrittenLabels
<1>6. \A k \in {"project_id"} \cup DOMAIN resource : SnakeCase[k] = k
  BY <1>5, SnakeKeys DEF IsSnake
<1> QED
  BY <1>1, <1>4, <1>6 DEF OneSpelling

\* The row of an entry can be sent.
LEMMA ReadIsRow ==
  ASSUME NEW e, IsEntry(e)
  PROVE  IsRow(MapEntry(e))
<1> DEFINE m == MapEntry(e)
<1>1. IsTimeColumn(TimestampValue(e.timestamp)) /\ IsTimeColumn(TimestampValue(e.received))
  BY TimesReadAreColumns DEF IsEntry
<1>2. /\ m.time = TimestampValue(e.timestamp)
      /\ m.observed_time \in {TimestampValue(e.received), TimestampValue(e.timestamp)}
      /\ m.trace_id = ExtractTraceId(e.trace)
      /\ m.service_name = ServiceName(e, PayloadOf(e))
      /\ m.body = BuildBody(e)
      /\ m.resource_attributes = ResourceAttributes(e)
      /\ m.log_attributes = LogAttributes(e, PayloadOf(e))
      /\ m.log_name = {} /\ m.log_id = << >>
  BY RowFields
<1>3. IsObject(PayloadOf(e))
  <2>1. CASE e.json_payload = {}
    BY <2>1, NothingIsEmpty DEF PayloadOf
  <2>2. CASE e.json_payload # {}
    BY <2>2 DEF PayloadOf, IsEntry
  <2> QED
    BY <2>1, <2>2
<1>4. {m.service_name, m.service_namespace, m.service_instance_id, m.body} \subseteq STRING
  BY <1>2, <1>3, ServiceIsText, BodyIsText
<1>5. IsTrace(m.trace_id)
  <2>1. /\ m.trace_id \in Seq(STRING)
        /\ \A i \in 2..Len(m.trace_id) - 1 : m.trace_id[i] # "traces"
    BY <1>2, ExtractedTraces DEF IsEntry
  <2> QED
    BY <2>1 DEF IsTrace, AtMostOne
<1>6. /\ m.log_attributes.labels = SnakeLabels(e.labels)
      /\ m.log_attributes.fields = Merge(e.context, PayloadOf(e))
      /\ m.resource_attributes.labels = SnakeLabels(e.resource_labels)
      /\ m.resource_attributes.log_id = LogNameAttributes(e.log_name).id
  BY <1>2 DEF LogAttributes, ResourceAttributes
<1>7. IsObject(m.log_attributes.fields)
  BY <1>3, <1>6, MergedAreObjects DEF IsEntry
<1>8. IsSnake(m.log_attributes.labels) /\ IsSnake(m.resource_attributes.labels)
  BY <1>6, SnakeLabelsAreSnake DEF IsEntry
<1>9. m.resource_attributes.log_id \in Seq(STRING)
  <2>1. e.log_name.id \in Seq(STRING)
    BY DEF IsEntry
  <2>2. LogNameAttributes(e.log_name).id = e.log_name.id \/ LogNameAttributes(e.log_name).id = << >>
    BY DEF LogNameAttributes
  <2>3. << >> \in Seq(STRING)
    OBVIOUS
  <2> QED
    BY <1>6, <2>1, <2>2, <2>3, Zenon
<1>10. /\ OneSpelling(DOMAIN Labels(m))
       /\ OneSpelling({"project_id"} \cup DOMAIN Put(Texts(m.resource_attributes.labels)))
  BY <1>4, <1>8, ReadLabelsAreSpelledOnce
<1>11. IsLabels(m.log_attributes.labels) /\ IsLabels(m.resource_attributes.labels)
  BY <1>8, SnakeStays
<1>12. IsTimeColumn(m.time) /\ IsTimeColumn(m.observed_time)
  BY <1>1, <1>2
<1>13. /\ AtMostOne(m.log_name) /\ \A name \in m.log_name : name.id \in Seq(STRING) \ {<< >>}
       /\ m.log_id \in Seq(STRING)
  BY <1>2 DEF AtMostOne
<1> HIDE DEF m
<1> QED
  BY <1>4, <1>5, <1>7, <1>9, <1>10, <1>11, <1>12, <1>13 DEF IsRow, m

-----------------------------------------------------------------------------
(* The inductive invariant                                                 *)

\* Whatever is at hand is a row that can be sent, the entry that is stored is that of
\* the row that was sent, and what is read is read from it.
Inv ==
  /\ phase \in {"given", "stored", "read", "refused"}
  /\ IsRow(row)
  /\ phase \in {"stored", "read"} => IsRow(sent) /\ ~Refused(sent) /\ entry = EntryOf(sent)
  /\ phase = "read" => row = MapEntry(entry)

\* The rows that are there at first can be sent.
LEMMA InitInv == Init => Inv
<1> SUFFICES ASSUME Init PROVE Inv
  OBVIOUS
<1>1. PICK r \in Rows \cup {MapEntry(e) : e \in Entries} : row = r
  BY DEF Init
<1>2. IsRow(r)
  <2>1. CASE r \in Rows
    BY <2>1, RowsAssumption
  <2>2. CASE r \in {MapEntry(e) : e \in Entries}
    <3>1. PICK e \in Entries : r = MapEntry(e)
      BY <2>2
    <3> QED
      BY <3>1, EntriesAssumption, ReadIsRow
  <2> QED
    BY <2>1, <2>2
<1>3. phase = "given"
  BY DEF Init
<1> QED
  BY <1>1, <1>2, <1>3 DEF Inv

\* Sending and reading keep it so.
LEMMA NextInv == Inv /\ [Next]_vars => Inv'
<1> SUFFICES ASSUME Inv, [Next]_vars PROVE Inv'
  OBVIOUS
<1>1. CASE Send
  <2>1. IsRow(row)
    BY DEF Inv
  <2>2. sent' = row /\ row' = row
    BY <1>1 DEF Send
  <2>3. CASE Refused(row)
    <3>1. phase' = "refused"
      BY <1>1, <2>3 DEF Send
    <3> QED
      BY <2>1, <2>2, <3>1 DEF Inv
  <2>4. CASE ~Refused(row)
    <3>1. phase' = "stored" /\ entry' = EntryOf(row)
      BY <1>1, <2>4 DEF Send, EntryOf
    <3> QED
      BY <2>1, <2>2, <2>4, <3>1 DEF Inv
  <2> QED
    BY <2>3, <2>4
<1>2. CASE Read
  <2>1. phase' = "read" /\ row' = MapEntry(entry) /\ entry' = entry /\ sent' = sent
    BY <1>2 DEF Read
  <2>2. IsRow(sent) /\ ~Refused(sent) /\ entry = EntryOf(sent)
    BY <1>2 DEF Inv, Read
  <2>3. IsRow(row')
    BY <2>1, <2>2, StoredIsEntry, ReadIsRow
  <2> QED
    BY <2>1, <2>2, <2>3 DEF Inv
<1>3. CASE UNCHANGED vars
  BY <1>3 DEF vars, Inv
<1> QED
  BY <1>1, <1>2, <1>3 DEF Next

\* A row that was sent is read back as it was, whatever the row, and whichever entries,
\* labels and payloads there are (send_logs.cpp and logs_table.cpp).
THEOREM RowsAreReadBack == Spec => []RowReadsBack
<1>1. Inv => RowReadsBack
  <2> SUFFICES ASSUME Inv, phase = "read"
               PROVE  /\ ServiceReadsBack /\ BodyReadsBack /\ TimeReadsBack /\ TraceReadsBack
                      /\ SeverityReadsBack /\ AttributesReadBack /\ SourceReadsBack
    BY DEF RowReadsBack
  <2>1. IsRead
    BY DEF Inv, IsRead
  <2> QED
    BY <2>1, ServiceIsReadBack, BodyIsReadBack, TimeIsReadBack, TraceIsReadBack, SeverityIsReadBack,
       AttributesAreReadBack, SourceIsReadBack
<1> QED
  BY InitInv, NextInv, <1>1, PTL DEF Spec

-----------------------------------------------------------------------------
(* Copying settles                                                         *)

Columns ==
  {"time", "observed_time", "trace_id", "span_id", "service_name", "service_namespace",
   "service_instance_id", "severity_text", "severity_number", "body", "resource_attributes",
   "log_attributes", "flags", "trace_sampled", "insert_id", "log_name", "log_id", "resource_type"}

\* A row of the columns that the reader fills.
HasColumns(r) ==
  /\ r = [c \in Columns |-> r[c]]
  /\ r.resource_attributes =
       [parent |-> r.resource_attributes.parent, log_id |-> r.resource_attributes.log_id,
        type |-> r.resource_attributes.type, labels |-> r.resource_attributes.labels]
  /\ r.log_attributes =
       [uid |-> r.log_attributes.uid, labels |-> r.log_attributes.labels, fields |-> r.log_attributes.fields]

NanosTime(n) == {[unit |-> "nanos", n |-> n]}

\* What holds of a copy of any row: its labels are in snake case, its names are those of
\* the service, and the columns that only the sender knows are empty.
StageOne(r) ==
  /\ HasColumns(r)
  /\ r.time # {} => \E n \in Nanos : Readable(n) /\ r.time = NanosTime(n)
  /\ r.observed_time = NanosTime(Now)
  /\ \A i \in 2..Len(r.trace_id) - 1 : r.trace_id[i] # "traces"
  /\ r.severity_text \in Names /\ r.severity_number = SeverityToNumber(r.severity_text)
  /\ IsSnake(r.log_attributes.labels) /\ IsSnake(r.resource_attributes.labels)
  /\ "project_id" \in DOMAIN r.resource_attributes.labels
  /\ r.resource_attributes.labels["project_id"] = Project
  /\ r.resource_attributes.parent = <<"gcp.project", Project>>
  /\ r.resource_attributes.type # NULL /\ r.log_attributes.uid # NULL
  /\ r.log_attributes.fields # Nothing => r.body = SaidBody(r.log_attributes.fields)
  /\ r.trace_sampled = {} /\ r.insert_id = NULL /\ r.log_name = {} /\ r.log_id = << >>
  /\ r.resource_type = NULL

\* What the reader would read of a row's own attributes.
OwnEntry(r) == [resource_labels |-> r.resource_attributes.labels, labels |-> r.log_attributes.labels]

\* What holds of a copy of a copy: its columns say what its attributes say.
StageTwo(r) ==
  /\ r.time # {}
  /\ Len(r.trace_id) <= 1
  /\ EncodeLogId(r.resource_attributes.log_id) = r.resource_attributes.log_id
  /\ r.resource_attributes.log_id # << >>
  /\ r.body # NULL /\ r.log_attributes.fields # Nothing =>
       "message" \in DOMAIN r.log_attributes.fields /\ r.log_attributes.fields["message"] = r.body
  /\ r.service_name = ServiceName(OwnEntry(r), r.log_attributes.fields)
  /\ r.service_namespace = ServiceNamespace(OwnEntry(r))
  /\ r.service_instance_id = ServiceInstance(OwnEntry(r))

\* What holds of the third: its attributes say what its columns say.
StageThree(r) ==
  /\ r.flags = IF r.trace_id = << >> THEN {} ELSE {IF r.flags = {1} THEN 1 ELSE 0}
  /\ \A k \in DOMAIN OwnLabels(r) :
       k \in DOMAIN r.log_attributes.labels /\ r.log_attributes.labels[k] = OwnLabels(r)[k]
  /\ r.service_name # NULL /\ r.log_attributes.fields # Nothing =>
       "service" \in DOMAIN r.log_attributes.fields /\ r.log_attributes.fields["service"] = r.service_name

\* After n copies.
Stages(r, n) ==
  /\ n > 0 => StageOne(r)
  /\ n > 1 => StageTwo(r)
  /\ n > 2 => StageThree(r)

CopiesInv ==
  /\ Inv
  /\ copies \in Nat
  /\ phase = "given" => copies = 0
  /\ phase = "read" => copies > 0 /\ Stages(row, copies)
  /\ phase = "stored" => copies > 0 /\ Stages(sent, copies - 1)
  /\ CopiesSettle

\* The reader fills every column.
LEMMA ReadHasColumns ==
  ASSUME NEW e
  PROVE  HasColumns(MapEntry(e))
<1> DEFINE m == MapEntry(e)
<1>1. m = [c \in Columns |-> m[c]]
  BY DEF MapEntry, Columns
<1>2. m.resource_attributes = ResourceAttributes(e) /\ m.log_attributes = LogAttributes(e, PayloadOf(e))
  BY RowFields
<1>3. /\ ResourceAttributes(e) = [parent |-> ResourceAttributes(e).parent, log_id |-> ResourceAttributes(e).log_id,
                                  type |-> ResourceAttributes(e).type, labels |-> ResourceAttributes(e).labels]
      /\ LogAttributes(e, PayloadOf(e)) =
           [uid |-> LogAttributes(e, PayloadOf(e)).uid, labels |-> LogAttributes(e, PayloadOf(e)).labels,
            fields |-> LogAttributes(e, PayloadOf(e)).fields]
  BY DEF ResourceAttributes, LogAttributes
<1> HIDE DEF m
<1>4. HasColumns(m)
  BY <1>1, <1>2, <1>3 DEF HasColumns
<1> QED
  BY <1>4 DEF m

\* An entry has a severity, that of the row if it names one.
LEMMA SeverityIsName ==
  ASSUME NEW r
  PROVE  /\ Severity(r) \in Names
         /\ r.severity_text \in Names => Severity(r) = r.severity_text
<1>1. Severity(r) = IF NormalizeSeverity(r.severity_text) # NULL THEN NormalizeSeverity(r.severity_text)
                    ELSE SeverityNumberToGcloud(r.severity_number)
  BY FirstOfTwo DEF Severity
<1>2. NormalizeSeverity(r.severity_text) # NULL => NormalizeSeverity(r.severity_text) \in Names
  BY DEF NormalizeSeverity, Names
<1>3. SeverityNumberToGcloud(r.severity_number) \in Names
  BY DEF SeverityNumberToGcloud, Names
<1>4. r.severity_text \in Names => NormalizeSeverity(r.severity_text) = r.severity_text
  BY DEF NormalizeSeverity, Names
<1> QED
  BY <1>1, <1>2, <1>3, <1>4, NullIsNoName

\* If the last of three texts is given, the first given one is not NULL;
LEMMA LastIsGiven ==
  ASSUME NEW a, NEW b, NEW c, c # NULL
  PROVE  FirstOf(<<a, b, c>>) # NULL
<1>1. FirstOf(<<a, b, c>>) = IF a # NULL THEN a ELSE IF b # NULL THEN b ELSE c
  BY FirstOfThree
<1> QED
  BY <1>1

\* if the first is not and the second is, it is that.
LEMMA SecondIsGiven ==
  ASSUME NEW a, a = NULL, NEW b, b # NULL, NEW c
  PROVE  FirstOf(<<a, b, c>>) = b
<1>1. FirstOf(<<a, b, c>>) = IF a # NULL THEN a ELSE IF b # NULL THEN b ELSE c
  BY FirstOfThree
<1> QED
  BY <1>1

\* The texts that stand for what is missing are given.
LEMMA OthersAreGiven == "global" # NULL /\ "generated" # NULL
BY Zenon DEF NULL

\* The time of a text that the code wrote is one that can be written and read again.
LEMMA TimeOfCopy ==
  ASSUME NEW n \in Nanos
  PROVE  /\ TimestampValue({FormatRfc3339Nanos(n)}) \subseteq NanosTime(n)
         /\ TimestampValue({FormatRfc3339Nanos(n)}) # {} => Readable(n)
         /\ Readable(n) => TimestampValue({FormatRfc3339Nanos(n)}) = NanosTime(n)
<1> DEFINE text == FormatRfc3339Nanos(n)
<1>1. n \in Int /\ MinNanos \in Int
  BY TimeTextsAssumption DEF Nanos
<1>2. TimestampValue({text}) = {[unit |-> "nanos", n |-> m] : m \in ParseRfc3339ToNanos(text)}
  <2>1. UNION {ParseRfc3339ToNanos(t) : t \in {text}} = ParseRfc3339ToNanos(text)
    OBVIOUS
  <2> QED
    BY <2>1 DEF TimestampValue
<1>3. ParseRfc3339ToNanos(text) \subseteq {n}
  BY <1>1, ReadAsWritten
<1>4. Readable(n) => ParseRfc3339ToNanos(text) = {n}
  BY WrittenTimesAreRead
<1>5. ParseRfc3339ToNanos(text) # {} => Readable(n)
  <2>1. ASSUME ParseRfc3339ToNanos(text) # {}
        PROVE  Micros(text) * NanosPerMicro \in Nanos
    BY <2>1 DEF ParseRfc3339ToNanos
  <2> DEFINE start == Micros(text) * NanosPerMicro
             left  == n % NanosPerMicro
  <2>2. start \in Int /\ n = start + left /\ left \in 0..NanosPerMicro - 1
    BY <1>1, MicrosOf
  <2>3. left \in Int
    BY <2>2, TimeTextsAssumption
  <2>4. ASSUME start \in Nanos
        PROVE  n - left >= MinNanos
    <3> HIDE DEF start, left
    <3> QED
      BY <1>1, <2>2, <2>3, <2>4 DEF Nanos
  <2> QED
    BY <2>1, <2>4 DEF Readable
<1> HIDE DEF text
<1>6. TimestampValue({text}) \subseteq NanosTime(n)
  BY <1>2, <1>3 DEF NanosTime
<1>7. Readable(n) => TimestampValue({text}) = NanosTime(n)
  BY <1>2, <1>4 DEF NanosTime
<1>8. TimestampValue({text}) # {} => Readable(n)
  BY <1>2, <1>5
<1> QED
  BY <1>6, <1>7, <1>8 DEF text

\* The columns of a copy.
LEMMA CopyFields ==
  ASSUME NEW r
  PROVE  /\ Copy(r).time = TimestampValue({FormatRfc3339Nanos(Timestamp(r))})
         /\ Copy(r).observed_time =
              IF TimestampValue({FormatRfc3339Nanos(Now)}) # {} THEN TimestampValue({FormatRfc3339Nanos(Now)})
              ELSE TimestampValue({FormatRfc3339Nanos(Timestamp(r))})
         /\ Copy(r).trace_id = ExtractTraceId(r.trace_id)
         /\ Copy(r).span_id = r.span_id
         /\ Copy(r).severity_text = Severity(r)
         /\ Copy(r).severity_number = SeverityToNumber(Severity(r))
         /\ Copy(r).body = BuildBody(EntryOf(r))
         /\ Copy(r).resource_attributes = ResourceAttributes(EntryOf(r))
         /\ Copy(r).log_attributes = LogAttributes(EntryOf(r), PayloadOf(EntryOf(r)))
         /\ Copy(r).flags = IF r.trace_id = << >> THEN {} ELSE {IF Sampled(r) THEN 1 ELSE 0}
         /\ Copy(r).trace_sampled = {} /\ Copy(r).insert_id = NULL /\ Copy(r).log_name = {}
         /\ Copy(r).log_id = << >> /\ Copy(r).resource_type = NULL
<1>1. /\ EntryOf(r).timestamp = {FormatRfc3339Nanos(Timestamp(r))}
      /\ EntryOf(r).received = {FormatRfc3339Nanos(Now)}
      /\ EntryOf(r).trace = r.trace_id /\ EntryOf(r).span_id = r.span_id /\ EntryOf(r).severity = Severity(r)
      /\ EntryOf(r).trace_sampled = IF r.trace_id = << >> THEN {} ELSE {IF Sampled(r) THEN 1 ELSE 0}
  BY EntryFields
<1> DEFINE e == EntryOf(r)
<1> HIDE DEF e
<1>2. /\ MapEntry(e).time = TimestampValue(e.timestamp)
      /\ MapEntry(e).observed_time = IF TimestampValue(e.received) # {} THEN TimestampValue(e.received)
                                     ELSE TimestampValue(e.timestamp)
      /\ MapEntry(e).trace_id = ExtractTraceId(e.trace) /\ MapEntry(e).span_id = e.span_id
      /\ MapEntry(e).severity_text = e.severity /\ MapEntry(e).severity_number = SeverityToNumber(e.severity)
      /\ MapEntry(e).flags = e.trace_sampled
  BY RowFields
<1>3. /\ MapEntry(e).body = BuildBody(e) /\ MapEntry(e).resource_attributes = ResourceAttributes(e)
      /\ MapEntry(e).log_attributes = LogAttributes(e, PayloadOf(e))
      /\ MapEntry(e).trace_sampled = {} /\ MapEntry(e).insert_id = NULL /\ MapEntry(e).log_name = {}
      /\ MapEntry(e).log_id = << >> /\ MapEntry(e).resource_type = NULL
  BY RowFields
<1>4. Copy(r) = MapEntry(e) /\ e = EntryOf(r)
  BY DEF Copy, e
<1> QED
  BY <1>1, <1>2, <1>3, <1>4

\* The attributes of a copy.
LEMMA CopyAttributes ==
  ASSUME NEW r
  PROVE  /\ Copy(r).resource_attributes.parent = LogNameAttributes(LogName(r)).parent
         /\ Copy(r).resource_attributes.log_id = LogNameAttributes(LogName(r)).id
         /\ Copy(r).resource_attributes.type = FirstOf(<<r.resource_type, r.resource_attributes.type, "global">>)
         /\ Copy(r).resource_attributes.labels = SnakeLabels(WrittenResource(r))
         /\ Copy(r).log_attributes.uid = InsertId(r)
         /\ Copy(r).log_attributes.labels = SnakeLabels(Labels(r))
         /\ Copy(r).log_attributes.fields = Merge(Nothing, PayloadOf(EntryOf(r)))
<1> DEFINE e == EntryOf(r)
<1>1. Copy(r).resource_attributes = ResourceAttributes(e) /\ Copy(r).log_attributes = LogAttributes(e, PayloadOf(e))
  BY CopyFields
<1>2. /\ e.log_name = LogName(r) /\ e.type = FirstOf(<<r.resource_type, r.resource_attributes.type, "global">>)
      /\ e.resource_labels = WrittenResource(r) /\ e.insert_id = InsertId(r) /\ e.labels = Labels(r)
      /\ e.context = Nothing
  BY EntryFields
<1> HIDE DEF e
<1>3. /\ ResourceAttributes(e).parent = LogNameAttributes(e.log_name).parent
      /\ ResourceAttributes(e).log_id = LogNameAttributes(e.log_name).id
      /\ ResourceAttributes(e).type = e.type
      /\ ResourceAttributes(e).labels = SnakeLabels(e.resource_labels)
  BY DEF ResourceAttributes
<1>4. /\ LogAttributes(e, PayloadOf(e)).uid = e.insert_id
      /\ LogAttributes(e, PayloadOf(e)).labels = SnakeLabels(e.labels)
      /\ LogAttributes(e, PayloadOf(e)).fields = Merge(e.context, PayloadOf(e))
  BY DEF LogAttributes
<1> QED
  BY <1>1, <1>2, <1>3, <1>4 DEF e

\* Whether a row has fields does not change, and one that has some says something.
LEMMA BodyOfCopy ==
  ASSUME NEW r, IsRow(r)
  PROVE  LET fields == r.log_attributes.fields IN
         /\ fields = Nothing => /\ Copy(r).log_attributes.fields = Nothing
                                /\ Copy(r).body = r.body
         /\ fields # Nothing => /\ Copy(r).log_attributes.fields = Merge(Message(r), fields)
                                /\ Copy(r).log_attributes.fields # Nothing
                                /\ Copy(r).body = SaidBody(Merge(Message(r), fields))
                                /\ r.body # NULL => Copy(r).body = r.body
<1> DEFINE fields == r.log_attributes.fields
           e == EntryOf(r)
           p == Merge(Message(r), fields)
<1>1. /\ Copy(r).log_attributes.fields = Merge(Nothing, PayloadOf(e))
      /\ Copy(r).body = BuildBody(e)
  BY CopyAttributes, CopyFields
<1>2. /\ e.json_payload = Payload(r) /\ e.proto_payload = FALSE
      /\ e.text_payload = IF Payload(r) = {} THEN r.body ELSE NULL
  BY EntryFields
<1>3. IsObject(fields)
  BY DEF IsRow
<1>4. CASE fields = Nothing
  <2>1. PayloadOf(e) = Nothing
    BY <1>4, PayloadOfEntry
  <2>2. Copy(r).log_attributes.fields = Nothing
    BY <1>1, <2>1, FieldsAre, NothingIsEmpty
  <2>3. Payload(r) = {}
    BY <1>4 DEF Payload
  <2>4. Copy(r).body = r.body
    <3> HIDE DEF e
    <3> QED
      BY <1>1, <1>2, <2>3, BodyOf
  <2> QED
    BY <1>4, <2>2, <2>4
<1>5. CASE fields # Nothing
  <2>1. PayloadOf(e) = p /\ Payload(r) = {p}
    BY <1>5, PayloadOfEntry DEF Payload
  <2>2. IsObject(p)
    BY PayloadIs
  <2>3. Copy(r).log_attributes.fields = p
    BY <1>1, <2>1, <2>2, FieldsAre
  <2>4. p # Nothing
    <3>1. SUFFICES ASSUME p = Nothing
                   PROVE  fields = Nothing
      BY <1>5
    <3>2. \A k : k \notin DOMAIN fields
      BY <3>1, NothingIsEmpty, MergeIs
    <3>3. fields = [k \in DOMAIN fields |-> fields[k]] /\ DOMAIN fields = {}
      BY <1>3, <3>2 DEF IsObject
    <3> HIDE DEF fields
    <3> QED
      BY <3>3 DEF Nothing
  <2>5. Copy(r).body = SaidBody(p)
    <3> HIDE DEF e, p
    <3>1. e.text_payload = NULL /\ e.json_payload # {}
      BY <1>2, <2>1
    <3> QED
      BY <1>1, <2>1, <3>1, BodyOf
  <2>6. ASSUME r.body # NULL
        PROVE  SaidBody(p) = r.body
    <3>1. "message" \in DOMAIN p /\ p["message"] = r.body /\ r.body \in STRING
      BY <2>6, PayloadIs DEF IsRow
    <3> HIDE DEF p
    <3>2. "message" \in DOMAIN Texts(p)
      BY <3>1, PutTexts, TextsAssumption
    <3> QED
      BY <3>1, <3>2, SaidIs
  <2> QED
    BY <1>5, <2>3, <2>4, <2>5, <2>6
<1> QED
  BY <1>4, <1>5

\* A copy can be sent.
LEMMA CopyIsRow ==
  ASSUME NEW r, IsRow(r), ~Refused(r)
  PROVE  IsRow(Copy(r))
BY StoredIsEntry, ReadIsRow DEF Copy

\* The first copy of any row.
LEMMA FirstStage ==
  ASSUME NEW r, IsRow(r), ~Refused(r)
  PROVE  StageOne(Copy(r))
<1> DEFINE c == Copy(r)
<1>1. HasColumns(c)
  BY ReadHasColumns DEF Copy
<1>2. c.time # {} => \E n \in Nanos : Readable(n) /\ c.time = NanosTime(n)
  BY CopyFields, TimestampIs, TimeOfCopy
<1>3. c.observed_time = NanosTime(Now)
  <2>1. Readable(Now) /\ Now \in Nanos
    BY TimesAssumption DEF Readable
  <2>2. NanosTime(Now) # {}
    BY DEF NanosTime
  <2> QED
    BY <2>1, <2>2, CopyFields, TimeOfCopy
<1>4. \A i \in 2..Len(c.trace_id) - 1 : c.trace_id[i] # "traces"
  <2>1. c.trace_id = ExtractTraceId(r.trace_id)
    BY CopyFields
  <2>2. IsTrace(r.trace_id)
    BY DEF IsRow
  <2> HIDE DEF c
  <2> QED
    BY <2>1, <2>2, ExtractedTraces
<1>5. c.severity_text \in Names /\ c.severity_number = SeverityToNumber(c.severity_text)
  BY CopyFields, SeverityIsName
<1>6. /\ c.log_attributes.labels = SnakeLabels(Labels(r))
      /\ c.resource_attributes.labels = SnakeLabels(WrittenResource(r))
      /\ c.resource_attributes.parent = LogNameAttributes(LogName(r)).parent
      /\ c.resource_attributes.type = FirstOf(<<r.resource_type, r.resource_attributes.type, "global">>)
      /\ c.log_attributes.uid = InsertId(r)
  BY CopyAttributes
<1>7. IsSnake(c.log_attributes.labels) /\ IsSnake(c.resource_attributes.labels)
  BY <1>6, LabelsAre, WrittenResourceIs, SnakeLabelsAreSnake
<1>8. /\ "project_id" \in DOMAIN c.resource_attributes.labels
      /\ c.resource_attributes.labels["project_id"] = Project
  <2>1. /\ IsLabels(WrittenResource(r)) /\ Put(Texts(WrittenResource(r))) = WrittenResource(r)
        /\ "project_id" \in DOMAIN WrittenResource(r) /\ WrittenResource(r)["project_id"] = Project
    BY WrittenResourceIs
  <2>2. OneSpelling(DOMAIN WrittenResource(r))
    <3> DEFINE keys == {"project_id"} \cup DOMAIN Put(Texts(r.resource_attributes.labels))
    <3>1. OneSpelling(keys)
      BY DEF IsRow
    <3>2. DOMAIN WrittenResource(r) = keys
      BY WrittenResourceIs
    <3> QED
      BY <3>1, <3>2
  <2>3. SnakeCase["project_id"] = "project_id"
    BY SnakeKeys DEF WrittenLabels
  <2> QED
    BY <1>6, <2>1, <2>2, <2>3, SnakeLabelsAre
<1>9. c.resource_attributes.parent = <<"gcp.project", Project>>
  BY <1>6, LogNameIs, LogNameIsKept
<1>10. c.resource_attributes.type # NULL
  BY <1>6, LastIsGiven, OthersAreGiven, Zenon
<1>11. c.log_attributes.uid # NULL
  BY <1>6, LastIsGiven, OthersAreGiven, Zenon DEF InsertId
<1>12. c.log_attributes.fields # Nothing => c.body = SaidBody(c.log_attributes.fields)
  BY BodyOfCopy
<1>13. c.trace_sampled = {} /\ c.insert_id = NULL /\ c.log_name = {} /\ c.log_id = << >> /\ c.resource_type = NULL
  BY CopyFields
<1> HIDE DEF c
<1>14. StageOne(c)
  BY <1>1, <1>2, <1>3, <1>4, <1>5, <1>7, <1>8, <1>9, <1>10, <1>11, <1>12, <1>13 DEF StageOne
<1> QED
  BY <1>14 DEF c

\* From the first copy on, the attributes grow by the columns only.
LEMMA AttributesOfCopy ==
  ASSUME NEW r, IsRow(r), StageOne(r)
  PROVE  /\ WrittenResource(r) = r.resource_attributes.labels
         /\ Copy(r).resource_attributes.labels = r.resource_attributes.labels
         /\ Labels(r) = Merge(OwnLabels(r), r.log_attributes.labels)
         /\ Copy(r).log_attributes.labels = Labels(r)
         /\ Copy(r).resource_attributes.type = r.resource_attributes.type
         /\ Copy(r).log_attributes.uid = r.log_attributes.uid
         /\ Copy(r).severity_text = r.severity_text
         /\ Copy(r).severity_number = r.severity_number
<1> DEFINE labels   == r.log_attributes.labels
           resource == r.resource_attributes.labels
<1>1. Put(Texts(labels)) = labels /\ Put(Texts(resource)) = resource
  BY GivenStays DEF StageOne, IsSnake
<1>2. WrittenResource(r) = resource
  <2>1. WrittenResource(r) = Merge([project_id |-> Project], resource)
    BY <1>1 DEF WrittenResource
  <2> DEFINE w == WrittenResource(r)
             project == [project_id |-> Project]
  <2>2. "project_id" \in DOMAIN resource /\ resource["project_id"] = Project
    BY DEF StageOne
  <2>3. \A k : k \in DOMAIN project <=> k = "project_id"
    OBVIOUS
  <2>4. project["project_id"] = Project
    OBVIOUS
  <2>5. w = Merge(project, resource)
    BY <2>1
  <2> HIDE DEF project, w, resource
  <2>6. /\ \A k : k \in DOMAIN w <=> k \in DOMAIN project \/ k \in DOMAIN resource
        /\ \A k \in DOMAIN project : w[k] = project[k]
        /\ \A k \in DOMAIN resource : k \notin DOMAIN project => w[k] = resource[k]
        /\ w = [k \in DOMAIN w |-> w[k]]
    BY <2>5, MergeIs, MergeIsObject
  <2>7. DOMAIN w = DOMAIN resource
    BY <2>2, <2>3, <2>6
  <2>8. \A k \in DOMAIN resource : w[k] = resource[k]
    BY <2>2, <2>3, <2>4, <2>6
  <2>9. resource = [k \in DOMAIN resource |-> resource[k]]
    BY DEF StageOne, IsSnake, IsGiven, resource
  <2> QED
    BY <2>6, <2>7, <2>8, <2>9 DEF w
<1>3. Copy(r).resource_attributes.labels = resource
  BY <1>2, CopyAttributes, SnakeStays DEF StageOne
<1>4. Labels(r) = Merge(OwnLabels(r), labels)
  BY <1>1 DEF Labels
<1>5. IsSnake(Labels(r))
  <2>1. IsGiven(Labels(r)) /\ \A k \in DOMAIN Labels(r) : k \in DOMAIN OwnLabels(r) \/ k \in DOMAIN labels
    BY <1>1, LabelsAre
  <2>2. DOMAIN OwnLabels(r) \subseteq WrittenLabels
    BY OwnLabelsAre DEF IsRow, OwnNames, WrittenLabels
  <2>3. \A k \in DOMAIN labels : k \in DOMAIN SnakeCase /\ SnakeCase[k] = k
    BY DEF StageOne, IsSnake
  <2>4. \A k \in DOMAIN Labels(r) : k \in DOMAIN SnakeCase /\ SnakeCase[k] = k
    BY <2>1, <2>2, <2>3, SnakeKeys
  <2> QED
    BY <2>1, <2>4 DEF IsSnake
<1>6. Copy(r).log_attributes.labels = Labels(r)
  BY <1>5, CopyAttributes, SnakeStays
<1>7. Copy(r).resource_attributes.type = r.resource_attributes.type
  <2>1. r.resource_type = NULL /\ r.resource_attributes.type # NULL
    BY DEF StageOne
  <2>2. FirstOf(<<r.resource_type, r.resource_attributes.type, "global">>) = r.resource_attributes.type
    BY <2>1, SecondIsGiven
  <2> QED
    BY <2>2, CopyAttributes, Zenon
<1>8. Copy(r).log_attributes.uid = r.log_attributes.uid
  <2>1. r.insert_id = NULL /\ r.log_attributes.uid # NULL
    BY DEF StageOne
  <2>2. InsertId(r) = r.log_attributes.uid
    BY <2>1, SecondIsGiven DEF InsertId
  <2> QED
    BY <2>2, CopyAttributes, Zenon
<1>9. Copy(r).severity_text = r.severity_text /\ Copy(r).severity_number = r.severity_number
  BY CopyFields, SeverityIsName DEF StageOne
<1> QED
  BY <1>2, <1>3, <1>4, <1>6, <1>7, <1>8, <1>9

\* A time in nanoseconds is sent as it is.
LEMMA NanosAreRead ==
  ASSUME NEW n
  PROVE  ReadTimestampNanos(NanosTime(n)) = {n}
<1> DEFINE time == [unit |-> "nanos", n |-> n]
<1>1. time.unit = "nanos" /\ time.n = n /\ NanosTime(n) = {time}
  BY DEF NanosTime
<1> HIDE DEF time
<1>2. {t \in NanosTime(n) : t.unit = "millis" =>
         /\ t.n <= Quotient(MaxNanos, NanosPerMilli)
         /\ t.n >= Quotient(MinNanos, NanosPerMilli)} = {time}
  BY <1>1
<1> QED
  BY <1>1, <1>2 DEF ReadTimestampNanos

\* A copy has its row's time, or that of sending.
LEMMA TimeOfNext ==
  ASSUME NEW r, IsRow(r), StageOne(r)
  PROVE  /\ Copy(r).time # {}
         /\ r.time # {} => Copy(r).time = r.time
<1>1. Copy(r).time = TimestampValue({FormatRfc3339Nanos(Timestamp(r))})
  BY CopyFields
<1>2. CASE r.time # {}
  <2>1. PICK n \in Nanos : Readable(n) /\ r.time = NanosTime(n)
    BY <1>2 DEF StageOne
  <2>2. ReadTimestampNanos(r.time) = {n}
    BY <2>1, NanosAreRead
  <2>3. Timestamp(r) = n
    BY <2>2, TimestampIs
  <2>4. Copy(r).time = NanosTime(n)
    BY <1>1, <2>1, <2>3, TimeOfCopy
  <2> QED
    BY <1>2, <2>1, <2>4
<1>3. CASE r.time = {}
  <2>1. ReadTimestampNanos(r.time) = {}
    BY <1>3 DEF ReadTimestampNanos
  <2>2. ReadTimestampNanos(r.observed_time) = {Now}
    BY NanosAreRead DEF StageOne
  <2>3. Timestamp(r) = Now
    BY <2>1, <2>2, TimestampIs
  <2>4. Now \in Nanos /\ Readable(Now)
    BY TimesAssumption DEF Readable
  <2>5. Copy(r).time = NanosTime(Now)
    BY <1>1, <2>3, <2>4, TimeOfCopy
  <2>6. NanosTime(Now) # {}
    BY DEF NanosTime
  <2> QED
    BY <1>3, <2>5, <2>6
<1> QED
  BY <1>2, <1>3

\* What is encoded stays as it is.
LEMMA EncodedStays ==
  ASSUME NEW id \in Seq(STRING)
  PROVE  EncodeLogId(EncodeLogId(id)) = EncodeLogId(id)
<1> DEFINE code(c) == IF c = "/" THEN "%2F" ELSE c
           once == EncodeLogId(id)
<1>1. once \in Seq(STRING) \ {<< >>}
  BY EncodedIsName
<1>2. \A c : code(c) # "/"
  BY Zenon
<1>3. \A c : c # "/" => code(c) = c
  OBVIOUS
<1>4. \A i \in DOMAIN once : once[i] # "/"
  <2>1. CASE id = << >>
    <3>1. once = <<"d">>
      BY <2>1 DEF EncodeLogId
    <3> HIDE DEF once
    <3> QED
      BY <3>1
  <2>2. CASE id # << >>
    <3>1. once = [i \in DOMAIN id |-> code(id[i])]
      BY <2>2 DEF EncodeLogId
    <3> HIDE DEF code, once
    <3> QED
      BY <1>2, <3>1
  <2> QED
    BY <2>1, <2>2
<1> HIDE DEF once
<1>5. EncodeLogId(once) = [i \in DOMAIN once |-> code(once[i])]
  BY <1>1 DEF EncodeLogId
<1> HIDE DEF code
<1>6. EncodeLogId(once) = [i \in DOMAIN once |-> once[i]]
  BY <1>3, <1>4, <1>5
<1>7. EncodeLogId(once) = once
  BY <1>1, <1>6
<1> QED
  BY <1>7 DEF once

\* The log keeps its name from the first copy on.
LEMMA LogOfCopy ==
  ASSUME NEW r, IsRow(r), ~Refused(r), StageOne(r)
  PROVE  Copy(r).resource_attributes.log_id = EncodeLogId(r.resource_attributes.log_id)
<1>1. Copy(r).resource_attributes.log_id = LogName(r).id
  BY CopyAttributes, LogNameIsKept
<1>2. r.log_name = {} /\ r.log_id = << >>
  BY DEF StageOne
<1>3. LogName(r).id = EncodeLogId(LogId(r))
  BY <1>2, LogNameIs
<1>4. LogId(r) = r.resource_attributes.log_id
  BY <1>2 DEF LogId
<1> QED
  BY <1>1, <1>3, <1>4

\* Where the columns of the service's identity of a copy come from.
LEMMA ServiceOfCopy ==
  ASSUME NEW r, IsRow(r), StageOne(r)
  PROVE  LET resource == r.resource_attributes.labels IN
         /\ Copy(r).service_name =
              LookupStr(resource, <<"service_name">>,
                LookupStr(PayloadOf(EntryOf(r)), <<"service", "service_name", "serviceName", "service.name">>,
                  LookupStr(Labels(r), <<"service_name", "service">>,
                    LookupStr(resource, <<"function_name", "container_name", "job">>, NULL))))
         /\ Copy(r).service_namespace =
              LookupStr(resource, <<"namespace_name", "namespace_id">>,
                LookupStr(Labels(r), <<"service_namespace">>, NULL))
         /\ Copy(r).service_instance_id =
              LookupStr(resource, <<"instance_id", "pod_name", "revision_name", "task_id">>,
                LookupStr(Labels(r), <<"service_instance_id">>, NULL))
<1> DEFINE e == EntryOf(r)
<1>1. e.resource_labels = r.resource_attributes.labels /\ e.labels = Labels(r)
  BY EntryFields, AttributesOfCopy
<1> HIDE DEF e
<1>2. /\ MapEntry(e).service_name = ServiceName(e, PayloadOf(e))
      /\ MapEntry(e).service_namespace = ServiceNamespace(e)
      /\ MapEntry(e).service_instance_id = ServiceInstance(e)
  BY RowFields
<1>3. Copy(r) = MapEntry(e)
  BY DEF Copy, e
<1> QED
  BY <1>1, <1>2, <1>3 DEF ServiceName, ServiceNamespace, ServiceInstance, e

\* Where they come from once the row is read of its own attributes.
LEMMA OwnService ==
  ASSUME NEW r
  PROVE  LET resource == r.resource_attributes.labels
             labels   == r.log_attributes.labels
         IN
         /\ ServiceName(OwnEntry(r), r.log_attributes.fields) =
              LookupStr(resource, <<"service_name">>,
                LookupStr(r.log_attributes.fields, <<"service", "service_name", "serviceName", "service.name">>,
                  LookupStr(labels, <<"service_name", "service">>,
                    LookupStr(resource, <<"function_name", "container_name", "job">>, NULL))))
         /\ ServiceNamespace(OwnEntry(r)) =
              LookupStr(resource, <<"namespace_name", "namespace_id">>,
                LookupStr(labels, <<"service_namespace">>, NULL))
         /\ ServiceInstance(OwnEntry(r)) =
              LookupStr(resource, <<"instance_id", "pod_name", "revision_name", "task_id">>,
                LookupStr(labels, <<"service_instance_id">>, NULL))
<1> DEFINE own == OwnEntry(r)
<1>1. own.resource_labels = r.resource_attributes.labels /\ own.labels = r.log_attributes.labels
  BY DEF OwnEntry
<1> HIDE DEF own
<1>2. /\ ServiceName(own, r.log_attributes.fields) =
           LookupStr(r.resource_attributes.labels, <<"service_name">>,
             LookupStr(r.log_attributes.fields, <<"service", "service_name", "serviceName", "service.name">>,
               LookupStr(r.log_attributes.labels, <<"service_name", "service">>,
                 LookupStr(r.resource_attributes.labels, <<"function_name", "container_name", "job">>, NULL))))
      /\ ServiceNamespace(own) =
           LookupStr(r.resource_attributes.labels, <<"namespace_name", "namespace_id">>,
             LookupStr(r.log_attributes.labels, <<"service_namespace">>, NULL))
      /\ ServiceInstance(own) =
           LookupStr(r.resource_attributes.labels, <<"instance_id", "pod_name", "revision_name", "task_id">>,
             LookupStr(r.log_attributes.labels, <<"service_instance_id">>, NULL))
  BY <1>1 DEF ServiceName, ServiceNamespace, ServiceInstance
<1> QED
  BY <1>2 DEF own

\* A body that is not given, beside fields, stays so: they say it is empty.
LEMMA EmptyStays ==
  ASSUME NEW r, IsRow(r), r.body = NULL
  PROVE  SaidBody(Merge(Message(r), r.log_attributes.fields)) = SaidBody(r.log_attributes.fields)
<1> DEFINE fields == r.log_attributes.fields
           p      == Merge(Message(r), fields)
<1>1. \A k \in {"message", "msg"} :
        /\ k \in DOMAIN p <=> k \in DOMAIN fields
        /\ k \in DOMAIN fields => p[k] = fields[k]
  BY PayloadIs
<1> HIDE DEF p, fields
<1>2. \A k \in {"message", "msg"} :
        /\ k \in DOMAIN Texts(p) <=> k \in DOMAIN Texts(fields)
        /\ k \in DOMAIN Texts(p) => p[k] = fields[k]
  BY <1>1, PutTexts
<1>3. SaidBody(p) = SaidBody(fields)
  BY <1>2, SaidIs
<1> QED
  BY <1>3 DEF p, fields

\* The copy of a copy.
LEMMA SecondStage ==
  ASSUME NEW r, IsRow(r), ~Refused(r), StageOne(r)
  PROVE  StageTwo(Copy(r))
<1> DEFINE c == Copy(r)
<1>1. c.time # {}
  BY TimeOfNext
<1>2. Len(c.trace_id) <= 1
  <2>1. c.trace_id = ExtractTraceId(r.trace_id)
    BY CopyFields
  <2>2. IsTrace(r.trace_id) /\ \A i \in 2..Len(r.trace_id) - 1 : r.trace_id[i] # "traces"
    BY DEF IsRow, StageOne
  <2> HIDE DEF c
  <2> QED
    BY <2>1, <2>2, ExtractedTraces
<1>3. /\ EncodeLogId(c.resource_attributes.log_id) = c.resource_attributes.log_id
      /\ c.resource_attributes.log_id # << >>
  <2>1. r.resource_attributes.log_id \in Seq(STRING)
    BY DEF IsRow
  <2>2. c.resource_attributes.log_id = EncodeLogId(r.resource_attributes.log_id)
    BY LogOfCopy
  <2> HIDE DEF c
  <2> QED
    BY <2>1, <2>2, EncodedIsName, EncodedStays
<1>4. ASSUME c.body # NULL, c.log_attributes.fields # Nothing
      PROVE  "message" \in DOMAIN c.log_attributes.fields /\ c.log_attributes.fields["message"] = c.body
  <2>1. r.log_attributes.fields # Nothing
    BY <1>4, BodyOfCopy
  <2>2. r.body # NULL
    BY <1>4, <2>1, EmptyStays, BodyOfCopy DEF StageOne
  <2>3. c.body = r.body /\ c.log_attributes.fields = Merge(Message(r), r.log_attributes.fields)
    BY <2>1, <2>2, BodyOfCopy
  <2> HIDE DEF c
  <2> QED
    BY <2>2, <2>3, PayloadIs
<1>5. /\ c.resource_attributes.labels = r.resource_attributes.labels
      /\ c.log_attributes.labels = Labels(r)
      /\ c.log_attributes.fields = PayloadOf(EntryOf(r))
  <2>1. c.log_attributes.fields = Merge(Nothing, PayloadOf(EntryOf(r)))
    BY CopyAttributes
  <2> QED
    BY <2>1, AttributesOfCopy, PayloadIsObject, FieldsAre
<1>6. /\ c.service_name = ServiceName(OwnEntry(c), c.log_attributes.fields)
      /\ c.service_namespace = ServiceNamespace(OwnEntry(c))
      /\ c.service_instance_id = ServiceInstance(OwnEntry(c))
  <2> HIDE DEF c
  <2>1. /\ c.service_name = Copy(r).service_name /\ c.service_namespace = Copy(r).service_namespace
        /\ c.service_instance_id = Copy(r).service_instance_id
    BY DEF c
  <2> QED
    BY <1>5, <2>1, ServiceOfCopy, OwnService
<1> HIDE DEF c
<1>7. StageTwo(c)
  BY <1>1, <1>2, <1>3, <1>4, <1>6 DEF StageTwo
<1> QED
  BY <1>7 DEF c

\* A label is looked up in the copy as in its row, unless it is a column's.
LEMMA LabelOfNext ==
  ASSUME NEW r, IsRow(r), StageOne(r), NEW k
  PROVE  /\ k \in DOMAIN Texts(Labels(r)) <=>
              k \in DOMAIN OwnLabels(r) \/ k \in DOMAIN Texts(r.log_attributes.labels)
         /\ k \in DOMAIN OwnLabels(r) => Labels(r)[k] = OwnLabels(r)[k]
         /\ k \notin DOMAIN OwnLabels(r) /\ k \in DOMAIN Texts(r.log_attributes.labels) =>
              Labels(r)[k] = r.log_attributes.labels[k]
<1>1. /\ DOMAIN Texts(r.log_attributes.labels) = DOMAIN r.log_attributes.labels
      /\ Put(Texts(r.log_attributes.labels)) = r.log_attributes.labels
  BY GivenStays DEF StageOne, IsSnake
<1> QED
  BY <1>1, LabelsAre

\* From there on the namespace stays,
LEMMA NamespaceSettles ==
  ASSUME NEW r, IsRow(r), StageOne(r), StageTwo(r)
  PROVE  Copy(r).service_namespace = r.service_namespace
<1> DEFINE first(x) == LookupStr(r.resource_attributes.labels, <<"namespace_name", "namespace_id">>, x)
           label    == LookupStr(r.log_attributes.labels, <<"service_namespace">>, NULL)
           copied   == LookupStr(Labels(r), <<"service_namespace">>, NULL)
<1>1. r.service_namespace = first(label) /\ Copy(r).service_namespace = first(copied)
  BY ServiceOfCopy, OwnService DEF StageTwo
<1>2. copied = IF r.service_namespace # NULL THEN r.service_namespace ELSE label
  <2>1. {r.service_name, r.service_namespace, r.service_instance_id} \subseteq STRING
    BY DEF IsRow
  <2>2. /\ r.service_namespace # NULL <=> "service_namespace" \in DOMAIN OwnLabels(r)
        /\ r.service_namespace # NULL => OwnLabels(r)["service_namespace"] = r.service_namespace
    BY <2>1, OwnLabelsAre
  <2> QED
    BY <2>2, LookupOne, LabelOfNext
<1>3. (\A x : first(x) = x) \/ \A x, y : first(x) = first(y)
  BY LookupElse
<1> HIDE DEF first, label, copied
<1> QED
  BY <1>1, <1>2, <1>3

\* the instance,
LEMMA InstanceSettles ==
  ASSUME NEW r, IsRow(r), StageOne(r), StageTwo(r)
  PROVE  Copy(r).service_instance_id = r.service_instance_id
<1> DEFINE first(x) == LookupStr(r.resource_attributes.labels, <<"instance_id", "pod_name", "revision_name", "task_id">>, x)
           label    == LookupStr(r.log_attributes.labels, <<"service_instance_id">>, NULL)
           copied   == LookupStr(Labels(r), <<"service_instance_id">>, NULL)
<1>1. r.service_instance_id = first(label) /\ Copy(r).service_instance_id = first(copied)
  BY ServiceOfCopy, OwnService DEF StageTwo
<1>2. copied = IF r.service_instance_id # NULL THEN r.service_instance_id ELSE label
  <2>1. {r.service_name, r.service_namespace, r.service_instance_id} \subseteq STRING
    BY DEF IsRow
  <2>2. /\ r.service_instance_id # NULL <=> "service_instance_id" \in DOMAIN OwnLabels(r)
        /\ r.service_instance_id # NULL => OwnLabels(r)["service_instance_id"] = r.service_instance_id
    BY <2>1, OwnLabelsAre
  <2> QED
    BY <2>2, LookupOne, LabelOfNext
<1>3. (\A x : first(x) = x) \/ \A x, y : first(x) = first(y)
  BY LookupElse
<1> HIDE DEF first, label, copied
<1> QED
  BY <1>1, <1>2, <1>3

\* A look-up depends on the strings under its keys only.
LEMMA LookupSame ==
  ASSUME NEW o, NEW p, NEW keys, NEW otherwise, \A i \in DOMAIN keys : i \in 1..4,
         \A i \in DOMAIN keys : keys[i] \in DOMAIN Texts(o) <=> keys[i] \in DOMAIN Texts(p),
         \A i \in DOMAIN keys : keys[i] \in DOMAIN Texts(o) => o[keys[i]] = p[keys[i]]
  PROVE  LookupStr(o, keys, otherwise) = LookupStr(p, keys, otherwise)
<1> DEFINE hits(q) == {i \in DOMAIN keys : keys[i] \in DOMAIN Texts(q)}
<1>1. hits(o) = hits(p)
  OBVIOUS
<1>2. CASE hits(o) = {}
  BY <1>1, <1>2 DEF LookupStr
<1>3. CASE hits(o) # {}
  <2>1. Min(hits(o)) \in hits(o)
    BY <1>3, MinOfFew
  <2>2. o[keys[Min(hits(o))]] = p[keys[Min(hits(o))]]
    BY <2>1
  <2>3. /\ LookupStr(o, keys, otherwise) = o[keys[Min(hits(o))]]
        /\ LookupStr(p, keys, otherwise) = p[keys[Min(hits(p))]]
    BY <1>1, <1>3 DEF LookupStr
  <2> QED
    BY <1>1, <2>2, <2>3
<1> QED
  BY <1>2, <1>3

\* What the payload of a copy says of the service.
LEMMA PayloadOfNext ==
  ASSUME NEW r, IsRow(r), NEW x
  PROVE  LET keys == <<"service", "service_name", "serviceName", "service.name">>
             said == LookupStr(PayloadOf(EntryOf(r)), keys, x)
         IN  /\ r.service_name = NULL => said = LookupStr(r.log_attributes.fields, keys, x)
             /\ r.service_name # NULL => said = IF r.log_attributes.fields = Nothing THEN x ELSE r.service_name
<1> DEFINE keys   == <<"service", "service_name", "serviceName", "service.name">>
           fields == r.log_attributes.fields
           p      == Merge(Message(r), fields)
           said   == LookupStr(PayloadOf(EntryOf(r)), keys, x)
<1>1. /\ DOMAIN keys \subseteq Int /\ \A i \in DOMAIN keys : i \in 1..4 /\ keys[i] # "message"
      /\ 1 \in DOMAIN keys /\ keys[1] = "service" /\ \A j \in DOMAIN keys : ~(j < 1)
  OBVIOUS
<1>2. /\ \A k : k \in DOMAIN p <=> \/ k = "message" /\ r.body # NULL
                                   \/ k = "service" /\ r.service_name # NULL
                                   \/ k \in DOMAIN fields
      /\ r.service_name # NULL => p["service"] = r.service_name
      /\ \A k \in DOMAIN fields : \/ k = "message" /\ r.body # NULL
                                  \/ k = "service" /\ r.service_name # NULL
                                  \/ p[k] = fields[k]
  BY PayloadIs
<1>3. PayloadOf(EntryOf(r)) = IF fields = Nothing THEN Nothing ELSE p
  BY PayloadOfEntry
<1>4. r.service_name \in STRING /\ NotText \notin STRING
  BY TextsAssumption DEF IsRow
<1> HIDE DEF keys, p, fields
<1>5. CASE fields = Nothing
  <2>1. \A k : k \notin DOMAIN Texts(Nothing)
    BY NothingIsEmpty, PutTexts
  <2>2. LookupStr(Nothing, keys, x) = x
    BY <2>1, LookupMiss
  <2>3. said = x /\ LookupStr(fields, keys, x) = x
    BY <1>3, <1>5, <2>2
  <2> QED
    BY <1>5, <2>3 DEF fields, keys
<1>6. CASE fields # Nothing /\ r.service_name = NULL
  <2>1. \A i \in DOMAIN keys : /\ keys[i] \in DOMAIN p <=> keys[i] \in DOMAIN fields
                               /\ keys[i] \in DOMAIN fields => p[keys[i]] = fields[keys[i]]
    BY <1>1, <1>2, <1>6
  <2>2. \A i \in DOMAIN keys : /\ keys[i] \in DOMAIN Texts(p) <=> keys[i] \in DOMAIN Texts(fields)
                               /\ keys[i] \in DOMAIN Texts(p) => p[keys[i]] = fields[keys[i]]
    BY <2>1, PutTexts
  <2>3. LookupStr(p, keys, x) = LookupStr(fields, keys, x)
    BY <1>1, <2>2, LookupSame
  <2> QED
    BY <1>3, <1>6, <2>3 DEF fields, keys
<1>7. CASE fields # Nothing /\ r.service_name # NULL
  <2>1. "service" \in DOMAIN p /\ p["service"] = r.service_name
    BY <1>2, <1>7
  <2>2. "service" \in DOMAIN Texts(p)
    BY <1>4, <2>1, PutTexts
  <2>3. LookupStr(p, keys, x) = p["service"]
    BY <1>1, <2>2, LookupHit
  <2> QED
    BY <1>3, <1>7, <2>1, <2>3 DEF fields, keys
<1> QED
  BY <1>5, <1>6, <1>7

\* the name,
LEMMA ServiceNameSettles ==
  ASSUME NEW r, IsRow(r), StageOne(r), StageTwo(r)
  PROVE  Copy(r).service_name = r.service_name
<1> DEFINE keys      == <<"service", "service_name", "serviceName", "service.name">>
           last      == LookupStr(r.resource_attributes.labels, <<"function_name", "container_name", "job">>, NULL)
           first(x)  == LookupStr(r.resource_attributes.labels, <<"service_name">>, x)
           field(x)  == LookupStr(r.log_attributes.fields, keys, x)
           said(x)   == LookupStr(PayloadOf(EntryOf(r)), keys, x)
           label     == LookupStr(r.log_attributes.labels, <<"service_name", "service">>, last)
           copied    == LookupStr(Labels(r), <<"service_name", "service">>, last)
<1>1. r.service_name = first(field(label))
  BY OwnService DEF StageTwo
<1>2. Copy(r).service_name = first(said(copied))
  BY ServiceOfCopy
<1>3. /\ r.service_name = NULL => said(copied) = field(copied)
      /\ r.service_name # NULL => said(copied) \in {copied, r.service_name}
  BY PayloadOfNext
<1>4. /\ r.service_name = NULL => copied = label
      /\ r.service_name # NULL => copied = r.service_name
  <2>1. {r.service_name, r.service_namespace, r.service_instance_id} \subseteq STRING
    BY DEF IsRow
  <2>2. /\ r.service_name # NULL <=> "service_name" \in DOMAIN OwnLabels(r)
        /\ r.service_name # NULL => OwnLabels(r)["service_name"] = r.service_name
        /\ "service" \notin DOMAIN OwnLabels(r)
    BY <2>1, OwnLabelsAre DEF OwnNames
  <2>3. /\ "service_name" \in DOMAIN Texts(Labels(r)) <=>
             r.service_name # NULL \/ "service_name" \in DOMAIN Texts(r.log_attributes.labels)
        /\ r.service_name # NULL => Labels(r)["service_name"] = r.service_name
        /\ r.service_name = NULL /\ "service_name" \in DOMAIN Texts(r.log_attributes.labels) =>
             Labels(r)["service_name"] = r.log_attributes.labels["service_name"]
    BY <2>2, LabelOfNext
  <2>4. /\ "service" \in DOMAIN Texts(Labels(r)) <=> "service" \in DOMAIN Texts(r.log_attributes.labels)
        /\ "service" \in DOMAIN Texts(r.log_attributes.labels) =>
             Labels(r)["service"] = r.log_attributes.labels["service"]
    BY <2>2, LabelOfNext
  <2> QED
    BY <2>3, <2>4, LookupTwo
<1>5. (\A x : first(x) = x) \/ \A x, y : first(x) = first(y)
  BY LookupElse
<1> HIDE DEF first, field, said, label, copied
<1> QED
  BY <1>1, <1>2, <1>3, <1>4, <1>5

\* and so all three,
LEMMA ServiceSettles ==
  ASSUME NEW r, IsRow(r), StageOne(r), StageTwo(r)
  PROVE  /\ Copy(r).service_name = r.service_name
         /\ Copy(r).service_namespace = r.service_namespace
         /\ Copy(r).service_instance_id = r.service_instance_id
BY ServiceNameSettles, NamespaceSettles, InstanceSettles

\* and the trace.
LEMMA TraceSettles ==
  ASSUME NEW r, IsRow(r), StageTwo(r)
  PROVE  Copy(r).trace_id = r.trace_id
<1>1. IsTrace(r.trace_id) /\ r.trace_id \in Seq(STRING) /\ Len(r.trace_id) <= 1
  BY DEF IsRow, IsTrace, StageTwo
<1>2. Copy(r).trace_id = ExtractTraceId(r.trace_id)
  BY CopyFields
<1>3. CASE Len(r.trace_id) = 1
  BY <1>1, <1>2, <1>3, ExtractedTraces
<1>4. CASE Len(r.trace_id) # 1
  <2>1. \A n \in Nat : n <= 1 /\ n # 1 => n = 0
    OBVIOUS
  <2>2. Len(r.trace_id) \in Nat
    BY <1>1
  <2>3. Len(r.trace_id) = 0
    BY <1>1, <1>4, <2>1, <2>2
  <2>4. r.trace_id = << >>
    BY <1>1, <2>3
  <2> QED
    BY <1>1, <1>2, <2>4, ExtractedTraces
<1> QED
  BY <1>3, <1>4

\* An own label that is copied has the value of its column.
LEMMA OwnLabelsSettle ==
  ASSUME NEW r, {r.service_name, r.service_namespace, r.service_instance_id} \subseteq STRING,
         NEW c, c.service_name = r.service_name, c.service_namespace = r.service_namespace,
         c.service_instance_id = r.service_instance_id
  PROVE  OwnLabels(c) = OwnLabels(r)
BY DEF OwnLabels

\* The third copy.
LEMMA ThirdStage ==
  ASSUME NEW r, IsRow(r), ~Refused(r), StageOne(r), StageTwo(r)
  PROVE  StageThree(Copy(r))
<1> DEFINE c == Copy(r)
<1>1. /\ c.service_name = r.service_name
      /\ c.service_namespace = r.service_namespace
      /\ c.service_instance_id = r.service_instance_id
  BY ServiceSettles
<1>2. c.flags = IF c.trace_id = << >> THEN {} ELSE {IF c.flags = {1} THEN 1 ELSE 0}
  <2>1. c.flags = IF r.trace_id = << >> THEN {} ELSE {IF Sampled(r) THEN 1 ELSE 0}
    BY CopyFields
  <2>2. c.trace_id = r.trace_id
    BY TraceSettles
  <2> HIDE DEF c
  <2> QED
    BY <2>1, <2>2
<1>3. \A k \in DOMAIN OwnLabels(c) :
        k \in DOMAIN c.log_attributes.labels /\ c.log_attributes.labels[k] = OwnLabels(c)[k]
  <2>1. c.log_attributes.labels = Labels(r)
    BY AttributesOfCopy
  <2>2. {r.service_name, r.service_namespace, r.service_instance_id} \subseteq STRING
    BY DEF IsRow
  <2> HIDE DEF c
  <2>3. OwnLabels(c) = OwnLabels(r)
    BY <1>1, <2>2, OwnLabelsSettle
  <2>4. \A k \in DOMAIN OwnLabels(r) : k \in DOMAIN Labels(r) /\ Labels(r)[k] = OwnLabels(r)[k]
    BY LabelsAre
  <2> QED
    BY <2>1, <2>3, <2>4
<1>4. ASSUME c.service_name # NULL, c.log_attributes.fields # Nothing
      PROVE  /\ "service" \in DOMAIN c.log_attributes.fields
             /\ c.log_attributes.fields["service"] = c.service_name
  <2>1. c.log_attributes.fields = Merge(Message(r), r.log_attributes.fields)
    BY <1>4, BodyOfCopy
  <2> HIDE DEF c
  <2>2. r.service_name # NULL
    BY <1>1, <1>4
  <2>3. /\ "service" \in DOMAIN Merge(Message(r), r.log_attributes.fields)
        /\ Merge(Message(r), r.log_attributes.fields)["service"] = r.service_name
    BY <2>2, PayloadIs
  <2> QED
    BY <1>1, <2>1, <2>3
<1> HIDE DEF c
<1>5. StageThree(c)
  BY <1>2, <1>3, <1>4 DEF StageThree
<1> QED
  BY <1>5 DEF c

\* Two objects of which the second says all that the first says.
LEMMA MergedInto ==
  ASSUME NEW first, NEW second, second = [k \in DOMAIN second |-> second[k]],
         \A k \in DOMAIN first : k \in DOMAIN second /\ second[k] = first[k]
  PROVE  Merge(first, second) = second
<1> DEFINE m == Merge(first, second)
<1>1. /\ \A k : k \in DOMAIN m <=> k \in DOMAIN first \/ k \in DOMAIN second
      /\ \A k \in DOMAIN first : m[k] = first[k]
      /\ \A k \in DOMAIN second : k \notin DOMAIN first => m[k] = second[k]
  BY MergeIs
<1>2. m = [k \in DOMAIN m |-> m[k]]
  BY MergeIsObject
<1> HIDE DEF m
<1>3. DOMAIN m = DOMAIN second
  BY <1>1
<1>4. \A k \in DOMAIN second : m[k] = second[k]
  BY <1>1
<1>5. m = second
  BY <1>2, <1>3, <1>4
<1> QED
  BY <1>5 DEF m

\* From there on the body and the fields stay,
LEMMA FieldsSettle ==
  ASSUME NEW r, IsRow(r), StageOne(r), StageTwo(r), StageThree(r)
  PROVE  /\ Copy(r).body = r.body
         /\ Copy(r).log_attributes.fields = r.log_attributes.fields
<1> DEFINE fields == r.log_attributes.fields
<1>1. CASE fields = Nothing
  BY <1>1, BodyOfCopy
<1>2. CASE fields # Nothing
  <2>1. /\ r.body # NULL => "message" \in DOMAIN fields /\ fields["message"] = r.body
        /\ r.service_name # NULL => "service" \in DOMAIN fields /\ fields["service"] = r.service_name
        /\ r.body = SaidBody(fields)
    BY <1>2 DEF StageOne, StageTwo, StageThree
  <2>2. Copy(r).body = r.body /\ Copy(r).log_attributes.fields = Merge(Message(r), fields)
    BY <1>2, <2>1, BodyOfCopy, EmptyStays
  <2> DEFINE own == [message |-> r.body, service |-> r.service_name]
  <2>3. /\ \A k : k \in DOMAIN own <=> k = "message" \/ k = "service"
        /\ own["message"] = r.body /\ own["service"] = r.service_name
    OBVIOUS
  <2>4. Message(r) = Put(own)
    BY DEF Message
  <2> HIDE DEF own, fields
  <2>5. \A k \in DOMAIN Message(r) : k \in DOMAIN own /\ own[k] # NULL /\ Message(r)[k] = own[k]
    BY <2>4 DEF Put
  <2>6. \A k \in DOMAIN Message(r) : k \in DOMAIN fields /\ fields[k] = Message(r)[k]
    BY <2>1, <2>3, <2>5
  <2>7. fields = [k \in DOMAIN fields |-> fields[k]]
    BY DEF IsRow, IsObject, fields
  <2>8. Merge(Message(r), fields) = fields
    BY <2>6, <2>7, MergedInto
  <2> QED
    BY <2>2, <2>8 DEF fields
<1> QED
  BY <1>1, <1>2

\* the flags,
LEMMA SampledSettles ==
  ASSUME NEW r, IsRow(r), StageOne(r), StageTwo(r), StageThree(r)
  PROVE  Copy(r).flags = r.flags
<1>1. Copy(r).flags = IF r.trace_id = << >> THEN {} ELSE {IF Sampled(r) THEN 1 ELSE 0}
  BY CopyFields
<1>2. r.flags = IF r.trace_id = << >> THEN {} ELSE {IF r.flags = {1} THEN 1 ELSE 0}
  BY DEF StageThree
<1>3. r.trace_sampled = {}
  BY DEF StageOne
<1>4. Sampled(r) <=> \E flags \in r.flags : flags % 2 = 1
  BY <1>3 DEF Sampled
<1>5. 1 % 2 = 1 /\ 0 % 2 = 0
  OBVIOUS
<1>6. CASE r.trace_id # << >> /\ r.flags = {1}
  <2>1. Sampled(r)
    BY <1>4, <1>5, <1>6
  <2> QED
    BY <1>1, <1>6, <2>1
<1>7. CASE r.trace_id # << >> /\ r.flags # {1}
  <2>1. r.flags = {0}
    BY <1>2, <1>7
  <2>2. ~Sampled(r)
    BY <1>4, <1>5, <2>1
  <2> QED
    BY <1>1, <1>7, <2>1, <2>2
<1> QED
  BY <1>1, <1>2, <1>6, <1>7

\* the attributes of the resource,
LEMMA ResourceSettles ==
  ASSUME NEW r, IsRow(r), ~Refused(r), StageOne(r), StageTwo(r)
  PROVE  Copy(r).resource_attributes = r.resource_attributes
<1>1. /\ HasColumns(Copy(r)) /\ HasColumns(r)
      /\ Copy(r).resource_attributes.parent = r.resource_attributes.parent
  BY FirstStage DEF StageOne
<1>2. Copy(r).resource_attributes.log_id = r.resource_attributes.log_id
  BY LogOfCopy DEF StageTwo
<1>3. /\ Copy(r).resource_attributes.type = r.resource_attributes.type
      /\ Copy(r).resource_attributes.labels = r.resource_attributes.labels
  BY AttributesOfCopy
<1>4. /\ r.resource_attributes =
           [parent |-> r.resource_attributes.parent, log_id |-> r.resource_attributes.log_id,
            type |-> r.resource_attributes.type, labels |-> r.resource_attributes.labels]
      /\ Copy(r).resource_attributes =
           [parent |-> Copy(r).resource_attributes.parent, log_id |-> Copy(r).resource_attributes.log_id,
            type |-> Copy(r).resource_attributes.type, labels |-> Copy(r).resource_attributes.labels]
  BY <1>1 DEF HasColumns
<1> QED
  BY <1>1, <1>2, <1>3, <1>4

\* and those of the log.
LEMMA AttributesSettle ==
  ASSUME NEW r, IsRow(r), ~Refused(r), StageOne(r), StageTwo(r), StageThree(r)
  PROVE  Copy(r).log_attributes = r.log_attributes
<1>1. HasColumns(Copy(r)) /\ HasColumns(r)
  BY FirstStage DEF StageOne
<1>2. Copy(r).log_attributes.labels = r.log_attributes.labels
  <2>1. /\ Copy(r).log_attributes.labels = Labels(r)
        /\ Labels(r) = Merge(OwnLabels(r), r.log_attributes.labels)
    BY AttributesOfCopy
  <2>2. \A k \in DOMAIN OwnLabels(r) :
          k \in DOMAIN r.log_attributes.labels /\ r.log_attributes.labels[k] = OwnLabels(r)[k]
    BY DEF StageThree
  <2>3. r.log_attributes.labels = [k \in DOMAIN r.log_attributes.labels |-> r.log_attributes.labels[k]]
    BY DEF StageOne, IsSnake, IsGiven
  <2>4. Merge(OwnLabels(r), r.log_attributes.labels) = r.log_attributes.labels
    BY <2>2, <2>3, MergedInto
  <2> QED
    BY <2>1, <2>4
<1>3. Copy(r).log_attributes.uid = r.log_attributes.uid
  BY AttributesOfCopy
<1>4. Copy(r).log_attributes.fields = r.log_attributes.fields
  BY FieldsSettle
<1>5. /\ r.log_attributes = [uid |-> r.log_attributes.uid, labels |-> r.log_attributes.labels,
                             fields |-> r.log_attributes.fields]
      /\ Copy(r).log_attributes = [uid |-> Copy(r).log_attributes.uid, labels |-> Copy(r).log_attributes.labels,
                                   fields |-> Copy(r).log_attributes.fields]
  BY <1>1 DEF HasColumns
<1> QED
  BY <1>2, <1>3, <1>4, <1>5

\* The fourth copy is the third.
LEMMA LastStage ==
  ASSUME NEW r, IsRow(r), ~Refused(r), StageOne(r), StageTwo(r), StageThree(r)
  PROVE  Copy(r) = r
<1> DEFINE c == Copy(r)
<1>1. c.time = r.time
  BY TimeOfNext DEF StageTwo
<1>2. StageOne(c)
  BY FirstStage
<1>3. c.observed_time = r.observed_time /\ c.trace_sampled = r.trace_sampled /\ c.insert_id = r.insert_id
  BY <1>2 DEF StageOne
<1>4. c.log_name = r.log_name /\ c.log_id = r.log_id /\ c.resource_type = r.resource_type
  BY <1>2 DEF StageOne
<1>5. c.trace_id = r.trace_id /\ c.span_id = r.span_id /\ c.flags = r.flags
  BY TraceSettles, CopyFields, SampledSettles
<1>6. /\ c.service_name = r.service_name
      /\ c.service_namespace = r.service_namespace
      /\ c.service_instance_id = r.service_instance_id
  BY ServiceSettles
<1>7. c.severity_text = r.severity_text /\ c.severity_number = r.severity_number
  BY AttributesOfCopy
<1>8. c.body = r.body
  BY FieldsSettle
<1>9. c.resource_attributes = r.resource_attributes /\ c.log_attributes = r.log_attributes
  BY ResourceSettles, AttributesSettle
<1>10. c = [k \in Columns |-> c[k]] /\ r = [k \in Columns |-> r[k]]
  BY <1>2 DEF StageOne, HasColumns
<1> HIDE DEF c
<1>11. \A k \in Columns : c[k] = r[k]
  BY <1>1, <1>3, <1>4, <1>5, <1>6, <1>7, <1>8, <1>9 DEF Columns
<1>12. c = r
  BY <1>10, <1>11
<1> QED
  BY <1>12 DEF c

\* One copy more.
LEMMA NextStage ==
  ASSUME NEW r, IsRow(r), ~Refused(r), NEW n \in Nat, Stages(r, n)
  PROVE  /\ Stages(Copy(r), n + 1)
         /\ n > 2 => Copy(r) = r
<1>1. StageOne(Copy(r))
  BY FirstStage
<1>2. n + 1 > 1 => StageTwo(Copy(r))
  BY SecondStage DEF Stages
<1>3. n + 1 > 2 => StageThree(Copy(r))
  BY ThirdStage DEF Stages
<1>4. n > 2 => Copy(r) = r
  BY LastStage DEF Stages
<1> QED
  BY <1>1, <1>2, <1>3, <1>4 DEF Stages

\* A row that was not sent yet is no copy.
LEMMA InitCopies == Init => CopiesInv
<1> SUFFICES ASSUME Init PROVE CopiesInv
  OBVIOUS
<1>1. Inv /\ copies = 0 /\ phase = "given"
  BY InitInv DEF Init
<1> QED
  BY <1>1 DEF CopiesInv, CopiesSettle

\* Each copy reaches its stage, and from the third on it is the row that was sent.
LEMMA NextCopies == CopiesInv /\ [Next]_vars => CopiesInv'
<1> SUFFICES ASSUME CopiesInv, [Next]_vars PROVE CopiesInv'
  OBVIOUS
<1>1. Inv /\ Inv' /\ copies \in Nat
  BY NextInv DEF CopiesInv
<1>2. CASE Send
  <2>1. sent' = row /\ row' = row
    BY <1>2 DEF Send
  <2>2. CASE Refused(row)
    <3>1. phase' = "refused" /\ copies' = copies
      BY <1>2, <2>2 DEF Send
    <3> QED
      BY <1>1, <3>1 DEF CopiesInv, CopiesSettle
  <2>3. CASE ~Refused(row)
    <3>1. phase' = "stored" /\ copies' = copies + 1
      BY <1>2, <2>3 DEF Send
    <3>2. Stages(row, copies)
      <4>1. phase = "given" \/ phase = "read"
        BY <1>2 DEF Send
      <4>2. CASE phase = "given"
        <5>1. copies = 0
          BY <4>2 DEF CopiesInv
        <5> QED
          BY <5>1 DEF Stages
      <4>3. CASE phase = "read"
        BY <4>3 DEF CopiesInv
      <4> QED
        BY <4>1, <4>2, <4>3
    <3>3. copies' \in Nat /\ copies' > 0 /\ copies' - 1 = copies
      BY <1>1, <3>1
    <3>4. Stages(sent', copies' - 1)
      BY <2>1, <3>2, <3>3
    <3>5. Stages(sent, copies - 1)'
      BY <3>4
    <3> QED
      BY <1>1, <3>1, <3>3, <3>5 DEF CopiesInv, CopiesSettle
  <2> QED
    BY <2>2, <2>3
<1>3. CASE Read
  <2>1. phase' = "read" /\ copies' = copies /\ sent' = sent /\ phase = "stored"
    BY <1>3 DEF Read
  <2>2. IsRow(sent) /\ ~Refused(sent) /\ row' = Copy(sent)
    BY <1>1, <1>3 DEF Inv, Read, Copy
  <2>3. copies > 0 /\ Stages(sent, copies - 1)
    BY <2>1 DEF CopiesInv
  <2>4. copies - 1 \in Nat /\ (copies - 1) + 1 = copies
    BY <1>1, <2>3
  <2>5. Stages(row', copies) /\ (copies - 1 > 2 => row' = sent)
    BY <2>2, <2>3, <2>4, NextStage
  <2>6. Stages(row, copies)'
    BY <2>1, <2>5
  <2>7. CopiesSettle'
    BY <1>1, <2>1, <2>5 DEF CopiesSettle
  <2> QED
    BY <1>1, <2>1, <2>3, <2>6, <2>7 DEF CopiesInv
<1>4. CASE UNCHANGED vars
  BY <1>1, <1>4 DEF vars, CopiesInv, CopiesSettle
<1> QED
  BY <1>2, <1>3, <1>4 DEF Next

\* Copying settles: a row that was copied three times is not changed by a fourth, whatever
\* it held, although the sender prefers columns and the reader prefers labels of the
\* resource and keys of the payload (send_logs.cpp and logs_table.cpp).
THEOREM CopyingSettles == Spec => []CopiesSettle
<1>1. CopiesInv => CopiesSettle
  BY DEF CopiesInv
<1> QED
  BY InitCopies, NextCopies, <1>1, PTL DEF Spec

-----------------------------------------------------------------------------
(* The messages of a graph lie in one another                              *)

\* A sequence of anything is one of its own elements.
LEMMA SequenceIs ==
  ASSUME NEW S, NEW s \in Seq(S)
  PROVE  IsSequence(s) /\ Len(s) \in Nat /\ DOMAIN s = 1..Len(s)
<1>1. Len(s) \in Nat /\ s \in [1..Len(s) -> S] /\ DOMAIN s = 1..Len(s)
  BY LenProperties
<1>2. \A i \in 1..Len(s) : s[i] \in ToSet(s)
  BY <1>1 DEF ToSet
<1>3. s \in [1..Len(s) -> ToSet(s)]
  BY <1>1, <1>2
<1>4. s \in Seq(ToSet(s))
  BY <1>1, <1>3, SeqDef
<1> QED
  BY <1>1, <1>4 DEF IsSequence

\* A sequence with one more element.
LEMMA Appended ==
  ASSUME NEW s, IsSequence(s), NEW e
  PROVE  /\ IsSequence(Append(s, e))
         /\ Len(Append(s, e)) = Len(s) + 1 /\ Len(s) \in Nat
         /\ DOMAIN Append(s, e) = 1..Len(s) + 1 /\ DOMAIN s = 1..Len(s)
         /\ \A i \in 1..Len(s) : Append(s, e)[i] = s[i]
         /\ Append(s, e)[Len(s) + 1] = e
<1> DEFINE S == ToSet(s) \cup {e}
<1>1. s \in Seq(S)
  BY SeqMonotonic DEF IsSequence
<1>2. e \in S
  OBVIOUS
<1> HIDE DEF S
<1>3. Append(s, e) \in Seq(S)
  BY <1>1, <1>2, AppendProperties
<1>4. /\ Len(Append(s, e)) = Len(s) + 1 /\ Append(s, e)[Len(s) + 1] = e
      /\ \A i \in 1..Len(s) : Append(s, e)[i] = s[i]
  BY <1>1, <1>2, AppendProperties
<1>5. Len(s) \in Nat /\ DOMAIN s = 1..Len(s)
  BY <1>1, SequenceIs
<1>6. IsSequence(Append(s, e)) /\ DOMAIN Append(s, e) = 1..Len(Append(s, e))
  BY <1>3, SequenceIs
<1> QED
  BY <1>4, <1>5, <1>6

\* All but the last.
LEMMA FrontIs ==
  ASSUME NEW s, IsSequence(s), s # << >>
  PROVE  /\ IsSequence(Front(s))
         /\ Len(s) \in Nat \ {0} /\ DOMAIN s = 1..Len(s)
         /\ Len(Front(s)) = Len(s) - 1 /\ DOMAIN Front(s) = 1..Len(s) - 1
         /\ \A i \in 1..Len(s) - 1 : Front(s)[i] = s[i]
<1> DEFINE n == Len(s)
           front == SubSeq(s, 1, n - 1)
<1>1. s \in Seq(ToSet(s)) /\ n \in Nat \ {0} /\ DOMAIN s = 1..n
  <2>1. s \in Seq(ToSet(s))
    BY DEF IsSequence
  <2> QED
    BY <2>1, EmptySeq, SequenceIs
<1>2. \A i \in 1..n - 1 : s[i] \in ToSet(s)
  BY <1>1 DEF ToSet
<1> HIDE DEF n
<1>3. /\ front \in Seq(ToSet(s))
      /\ Len(front) = IF 1 <= n - 1 THEN (n - 1) - 1 + 1 ELSE 0
      /\ \A i \in 1..(n - 1) - 1 + 1 : front[i] = s[1 + i - 1]
  BY <1>1, <1>2, SubSeqProperties
<1> HIDE DEF front
<1>4. Len(front) = n - 1
  BY <1>1, <1>3
<1>5. \A i \in 1..n - 1 : front[i] = s[i]
  BY <1>1, <1>3
<1>6. IsSequence(front) /\ DOMAIN front = 1..n - 1
  BY <1>3, <1>4, SequenceIs
<1> QED
  BY <1>1, <1>4, <1>5, <1>6 DEF front, Front, n

IsReader(r) ==
  /\ {"message", "cursor", "end", "value"} \subseteq DOMAIN r
  /\ r.end \in Nat /\ r.cursor \in 0..r.end

\* Readers that lie in one another, and in a message that ends at end.
LieInEachOther(s, end) ==
  /\ IsSequence(s)
  /\ \A i \in DOMAIN s : IsReader(s[i]) /\ s[i].end = IF i = 1 THEN end ELSE s[i-1].cursor

\* The last reader goes on.
LEMMA LastGoesOn ==
  ASSUME NEW s, NEW end, LieInEachOther(s, end), s # << >>,
         NEW r, IsReader(r), r.end = s[Len(s)].end
  PROVE  LieInEachOther(Append(Front(s), r), end)
<1> DEFINE front == Front(s)
           n     == Len(s)
           t     == Append(front, r)
<1>1. /\ IsSequence(front) /\ n \in Nat \ {0} /\ DOMAIN s = 1..n
      /\ Len(front) = n - 1 /\ \A i \in 1..n - 1 : front[i] = s[i]
  <2>1. IsSequence(s)
    BY DEF LieInEachOther
  <2> QED
    BY <2>1, FrontIs
<1> HIDE DEF front, n
<1>2. /\ IsSequence(t) /\ DOMAIN t = 1..n /\ t[n] = r
      /\ \A i \in 1..n - 1 : t[i] = s[i]
  <2>1. /\ IsSequence(t) /\ DOMAIN t = 1..(n - 1) + 1 /\ t[(n - 1) + 1] = r
        /\ \A i \in 1..n - 1 : t[i] = front[i]
    BY <1>1, Appended
  <2>2. (n - 1) + 1 = n
    BY <1>1
  <2> QED
    BY <1>1, <2>1, <2>2
<1> HIDE DEF t
<1>3. \A i \in 1..n : IsReader(s[i]) /\ s[i].end = IF i = 1 THEN end ELSE s[i-1].cursor
  BY <1>1 DEF LieInEachOther
<1>4. ASSUME NEW i \in 1..n
      PROVE  IsReader(t[i]) /\ t[i].end = IF i = 1 THEN end ELSE t[i-1].cursor
  <2>1. i # 1 => t[i-1] = s[i-1]
    BY <1>1, <1>2
  <2>2. CASE i = n
    BY <1>2, <1>3, <2>1, <2>2 DEF n
  <2>3. CASE i # n
    <3>1. t[i] = s[i]
      BY <1>1, <1>2, <2>3
    <3> QED
      BY <1>3, <2>1, <3>1
  <2> QED
    BY <2>2, <2>3
<1> QED
  BY <1>2, <1>4 DEF LieInEachOther, t, front

\* A reader is opened.
LEMMA OneMore ==
  ASSUME NEW s, NEW end, LieInEachOther(s, end), s # << >>,
         NEW r, IsReader(r), r.end = s[Len(s)].cursor
  PROVE  LieInEachOther(Append(s, r), end)
<1> DEFINE n == Len(s)
           t == Append(s, r)
<1>1. /\ IsSequence(t) /\ n \in Nat /\ DOMAIN t = 1..n + 1 /\ DOMAIN s = 1..n
      /\ t[n + 1] = r /\ \A i \in 1..n : t[i] = s[i]
  BY Appended DEF LieInEachOther
<1>2. n # 0
  BY EmptySeq DEF LieInEachOther, IsSequence
<1>3. r.end = s[n].cursor
  OBVIOUS
<1> HIDE DEF n, t
<1>4. \A i \in 1..n : IsReader(s[i]) /\ s[i].end = IF i = 1 THEN end ELSE s[i-1].cursor
  BY <1>1 DEF LieInEachOther
<1>5. ASSUME NEW i \in 1..n + 1
      PROVE  IsReader(t[i]) /\ t[i].end = IF i = 1 THEN end ELSE t[i-1].cursor
  <2>1. i # 1 => t[i-1] = s[i-1]
    BY <1>1
  <2>2. CASE i = n + 1
    <3>1. t[i] = r /\ i # 1 /\ i - 1 = n
      BY <1>1, <1>2, <2>2
    <3> QED
      BY <1>3, <2>1, <3>1
  <2>3. CASE i # n + 1
    <3>1. i \in 1..n /\ t[i] = s[i]
      BY <1>1, <2>3
    <3> QED
      BY <1>4, <2>1, <3>1
  <2> QED
    BY <2>2, <2>3
<1> QED
  BY <1>1, <1>5 DEF LieInEachOther, t

\* The last reader collects something.
LEMMA LastCollects ==
  ASSUME NEW s, NEW end, LieInEachOther(s, end), s # << >>, NEW value
  PROVE  LieInEachOther([s EXCEPT ![Len(s)] = [s[Len(s)] EXCEPT !.value = value]], end)
<1> DEFINE n == Len(s)
           r == [s[n] EXCEPT !.value = value]
           t == [s EXCEPT ![n] = r]
           S == ToSet(s) \cup {r}
<1>1. s \in Seq(S) /\ n \in Nat \ {0} /\ DOMAIN s = 1..n
  BY SeqMonotonic, EmptySeq, SequenceIs DEF LieInEachOther, IsSequence
<1>2. /\ t \in Seq(S) /\ Len(t) = n
      /\ \A j \in 1..n : t[j] = IF j = n THEN r ELSE s[j]
  BY <1>1, ExceptSeq
<1>3. IsSequence(t) /\ DOMAIN t = 1..n
  BY <1>2, SequenceIs
<1>4. \A i \in 1..n : IsReader(s[i]) /\ s[i].end = IF i = 1 THEN end ELSE s[i-1].cursor
  BY <1>1 DEF LieInEachOther
<1>5. IsReader(r) /\ r.end = s[n].end /\ r.cursor = s[n].cursor
  <2>1. IsReader(s[n])
    BY <1>1, <1>4
  <2> DEFINE last == s[n]
  <2> HIDE DEF last
  <2>2. DOMAIN [last EXCEPT !.value = value] = DOMAIN last
    OBVIOUS
  <2>3. IsReader(last) => /\ [last EXCEPT !.value = value].end = last.end
                          /\ [last EXCEPT !.value = value].cursor = last.cursor
    BY DEF IsReader
  <2> QED
    BY <2>1, <2>2, <2>3 DEF IsReader, last
<1> HIDE DEF n, r, t, S
<1>6. ASSUME NEW i \in 1..n
      PROVE  IsReader(t[i]) /\ t[i].end = IF i = 1 THEN end ELSE t[i-1].cursor
  <2>1. IsReader(t[i]) /\ t[i].end = s[i].end
    BY <1>2, <1>4, <1>5
  <2>2. i # 1 => i - 1 \in 1..n /\ t[i-1].cursor = s[i-1].cursor
    BY <1>1, <1>2, <1>5
  <2> QED
    BY <1>4, <2>1, <2>2
<1> QED
  BY <1>3, <1>6 DEF LieInEachOther, n, r, t

\* A field lies behind the position it is read at and before the end of its message.
LEMMA FieldsLie ==
  ASSUME NEW at \in Nat, NEW end \in Nat, NEW field \in Fields(at, end)
  PROVE  /\ field.from \in Nat /\ field.to \in Nat
         /\ at < field.from /\ field.from <= field.to /\ field.to <= end
<1>1. \A from \in Nat : \A varint \in Varints(from, end) : varint.next \in Nat /\ from < varint.next /\ varint.next <= end
  <2> SUFFICES ASSUME NEW from \in Nat, NEW varint \in Varints(from, end)
               PROVE  varint.next \in Nat /\ from < varint.next /\ varint.next <= end
    OBVIOUS
  <2>1. PICK n \in VarintLengths(from, end) : varint.next = from + n
    BY DEF Varints
  <2>2. n \in Nat \ {0} /\ from + n <= end
    BY WidthsAssumption DEF VarintLengths
  <2> QED
    BY <2>1, <2>2
<1>2. \A tag : \A from \in Nat : \A count : \A taken \in Take(tag, from, count, end) :
        taken.from = from /\ taken.to \in Nat /\ from <= taken.to /\ taken.to <= end
  <2> SUFFICES ASSUME NEW tag, NEW from \in Nat, NEW count, NEW taken \in Take(tag, from, count, end)
               PROVE  taken.from = from /\ taken.to \in Nat /\ from <= taken.to /\ taken.to <= end
    OBVIOUS
  <2>1. count \in 0..end - from
    BY DEF Take
  <2>2. taken.from = from /\ taken.to = from + count
    BY <2>1 DEF Take
  <2> QED
    BY <2>1, <2>2
<1>3. PICK tag \in Varints(at, end) :
        \/ \E integer \in Varints(tag.next, end) : field.from = integer.next /\ field.to = integer.next
        \/ field \in Take(tag, tag.next, 8, end)
        \/ \E size \in Varints(tag.next, end) : field \in Take(tag, size.next, size.value, end)
        \/ field \in Take(tag, tag.next, 4, end)
  <2> DEFINE ofInteger(tag) ==
               {[number |-> FieldNumber(tag), wire_type |-> 0, from |-> integer.next, to |-> integer.next,
                 integer |-> integer.value] : integer \in Varints(tag.next, end)}
             ofSize(tag) == UNION {Take(tag, size.next, size.value, end) : size \in Varints(tag.next, end)}
             fields(tag) ==
               CASE FieldNumber(tag) = 0 -> {}
                 [] FieldNumber(tag) # 0 /\ WireType(tag) = 0 -> ofInteger(tag)
                 [] FieldNumber(tag) # 0 /\ WireType(tag) = 1 -> Take(tag, tag.next, 8, end)
                 [] FieldNumber(tag) # 0 /\ WireType(tag) = 2 -> ofSize(tag)
                 [] FieldNumber(tag) # 0 /\ WireType(tag) = 5 -> Take(tag, tag.next, 4, end)
                 [] OTHER -> {}
  <2>1. PICK tag \in Varints(at, end) : field \in fields(tag)
    BY DEF Fields
  <2> HIDE DEF ofInteger, ofSize
  <2>2. \/ field \in ofInteger(tag)
        \/ field \in Take(tag, tag.next, 8, end)
        \/ field \in ofSize(tag)
        \/ field \in Take(tag, tag.next, 4, end)
    BY <2>1
  <2>3. field \in ofInteger(tag) =>
          \E integer \in Varints(tag.next, end) : field.from = integer.next /\ field.to = integer.next
    BY DEF ofInteger
  <2>4. field \in ofSize(tag) =>
          \E size \in Varints(tag.next, end) : field \in Take(tag, size.next, size.value, end)
    BY DEF ofSize
  <2> QED
    BY <2>2, <2>3, <2>4
<1>4. tag.next \in Nat /\ at < tag.next /\ tag.next <= end
  BY <1>1
<1>5. CASE \E integer \in Varints(tag.next, end) : field.from = integer.next /\ field.to = integer.next
  <2>1. PICK integer \in Varints(tag.next, end) : field.from = integer.next /\ field.to = integer.next
    BY <1>5
  <2>2. integer.next \in Nat /\ tag.next < integer.next /\ integer.next <= end
    BY <1>1, <1>4
  <2> QED
    BY <1>4, <2>1, <2>2
<1>6. CASE \E count : field \in Take(tag, tag.next, count, end)
  BY <1>2, <1>4, <1>6
<1>7. CASE \E size \in Varints(tag.next, end) : field \in Take(tag, size.next, size.value, end)
  <2>1. PICK size \in Varints(tag.next, end) : field \in Take(tag, size.next, size.value, end)
    BY <1>7
  <2>2. size.next \in Nat /\ tag.next < size.next
    BY <1>1, <1>4
  <2>3. field.from = size.next /\ field.to \in Nat /\ size.next <= field.to /\ field.to <= end
    BY <1>2, <2>1, <2>2
  <2> QED
    BY <1>4, <2>2, <2>3
<1> QED
  BY <1>3, <1>5, <1>6, <1>7

\* A frame that is whole ends in the body.
LEMMA FrameIs ==
  ASSUME response \in Responses, NEW at \in 0..Len(body), FrameIsWhole(at)
  PROVE  /\ Len(body) \in Nat /\ FrameEnd(at) \in 0..Len(body)
         /\ at + 5 <= FrameEnd(at)
<1>1. body \in Seq(Byte) /\ Len(body) \in Nat
  <2>1. body \in Seq(Byte)
    BY ResponsesAssumption DEF body
  <2> QED
    BY <2>1, LenProperties
<1>2. Len(body) - at >= 5
  BY DEF FrameIsWhole, Remaining
<1>3. \A i \in 1..Len(body) : body[i] \in Nat
  <2>1. \A i \in 1..Len(body) : body[i] \in Byte
    BY <1>1, ElementOfSeq
  <2>2. \A b \in Byte : b \in Nat
    BY DEF Byte
  <2> QED
    BY <2>1, <2>2
<1>4. /\ at + 2 \in 1..Len(body) /\ at + 3 \in 1..Len(body)
      /\ at + 4 \in 1..Len(body) /\ at + 5 \in 1..Len(body)
  BY <1>1, <1>2
<1>5. FrameLength(at) \in Nat
  <2> DEFINE a == body[at + 2]
             b == body[at + 3]
             c == body[at + 4]
             d == body[at + 5]
  <2>1. a \in Nat /\ b \in Nat /\ c \in Nat /\ d \in Nat
    BY <1>3, <1>4
  <2>2. FrameLength(at) = ((a * 256 + b) * 256 + c) * 256 + d
    BY DEF FrameLength
  <2> HIDE DEF a, b, c, d
  <2> QED
    BY <2>1, <2>2
<1>6. FrameLength(at) <= Len(body) - at - 5
  BY DEF FrameIsWhole, Remaining
<1> QED
  BY <1>1, <1>5, <1>6 DEF FrameEnd

\* The messages that are open lie in one another, the outermost in its frame.
DecodeInv ==
  /\ response \in Responses
  /\ pc \in {"unframe", "read", "done", "refused"}
  /\ Len(body) \in Nat /\ offset \in 0..Len(body)
  /\ \/ messages = << >> /\ stack = << >>
     \/ \E from, to \in 0..Len(body) :
          /\ from <= to /\ messages = <<[from |-> from, to |-> to]>>
          /\ stack = << >> \/ LieInEachOther(stack, to)
  /\ pc = "read" => stack # << >>
  /\ pc = "unframe" => stack = << >>

\* It implies the ranges of the variables.
LEMMA DecodeInvImplies == DecodeInv => TypeOK
<1> SUFFICES ASSUME DecodeInv PROVE TypeOK
  OBVIOUS
<1>1. CASE messages = << >> /\ stack = << >>
  BY <1>1 DEF DecodeInv, TypeOK
<1>2. ASSUME NEW from \in 0..Len(body), NEW to \in 0..Len(body), from <= to,
             messages = <<[from |-> from, to |-> to]>>, stack = << >> \/ LieInEachOther(stack, to)
      PROVE  TypeOK
  <2>1. /\ Len(messages) = 1 /\ DOMAIN messages = {1} /\ messages # << >>
        /\ messages[1].from = from /\ messages[1].to = to
    BY <1>2
  <2>2. from \in 0..to
    BY <1>2 DEF DecodeInv
  <2>3. \A i \in DOMAIN stack : /\ stack[i].cursor \in 0..stack[i].end
                                /\ stack[i].end = IF i = 1 THEN to ELSE stack[i-1].cursor
    BY <1>2 DEF LieInEachOther, IsReader
  <2> QED
    BY <1>2, <2>1, <2>2, <2>3 DEF DecodeInv, TypeOK
<1> QED
  BY <1>1, <1>2 DEF DecodeInv

\* It holds of an answer of which nothing was read.
LEMMA DecodeInvInit == DecodeInit => DecodeInv
<1> SUFFICES ASSUME DecodeInit PROVE DecodeInv
  OBVIOUS
<1>1. body \in Seq(Byte)
  BY ResponsesAssumption DEF DecodeInit, body
<1>2. Len(body) \in Nat
  BY <1>1, LenProperties
<1> QED
  BY <1>2 DEF DecodeInit, DecodeInv

\* A message that is opened lies where the field is.
LEMMA OpenedIs ==
  ASSUME NEW message, NEW from \in Nat, NEW to \in Nat, from <= to
  PROVE  LET r == Reader(message, from, to) IN IsReader(r) /\ r.end = to /\ r.cursor = from
<1> DEFINE blank == Blank(message)
           r == [message |-> message, cursor |-> from, end |-> to, value |-> blank]
<1> HIDE DEF blank
<1>1. IsReader(r) /\ r.end = to /\ r.cursor = from
  BY DEF IsReader
<1> QED
  BY <1>1 DEF Reader, blank

\* A field that is read keeps the readers in one another,
LEMMA ReadFieldKeeps ==
  ASSUME NEW to, LieInEachOther(stack, to), stack # << >>, ReadField
  PROVE  LieInEachOther(stack', to) /\ stack' # << >>
<1> DEFINE n == Len(stack)
<1>1. IsSequence(stack) /\ n \in Nat \ {0} /\ DOMAIN stack = 1..n /\ Top = stack[n]
  BY FrontIs DEF LieInEachOther, Top, Last
<1>2. IsReader(Top)
  BY <1>1 DEF LieInEachOther
<1>3. PICK field \in Fields(Top.cursor, Top.end) :
        LET passed == [Top EXCEPT !.cursor = field.to, !.value = Absorb(Top.message, Top.value, field)]
            inner  == Opened(Top.message, field)
        IN  stack' = IF inner = {} THEN Append(Below, passed)
                     ELSE Append(Append(Below, passed),
                                 Reader((CHOOSE nested \in inner : TRUE)[3], field.from, field.to))
  BY DEF ReadField
<1> DEFINE inner  == Opened(Top.message, field)
           value  == Absorb(Top.message, Top.value, field)
           passed == [Top EXCEPT !.cursor = field.to, !.value = value]
           opened == Reader((CHOOSE nested \in inner : TRUE)[3], field.from, field.to)
<1>4. /\ field.from \in Nat /\ field.to \in Nat
      /\ field.from <= field.to /\ field.to <= Top.end /\ Top.end \in Nat
  <2>1. Top.cursor \in Nat /\ Top.end \in Nat
    BY <1>2 DEF IsReader
  <2> QED
    BY <2>1, FieldsLie
<1>5. IsReader(passed) /\ passed.end = Top.end /\ passed.cursor = field.to
  <2> HIDE DEF value
  <2> DEFINE top == Top
  <2>1. IsReader(top) /\ top.end = Top.end
    BY <1>2
  <2> HIDE DEF top
  <2>2. LET p == [top EXCEPT !.cursor = field.to, !.value = value] IN
        DOMAIN p = DOMAIN top /\ p.end = top.end /\ p.cursor = field.to
    BY <2>1 DEF IsReader
  <2>3. IsReader([top EXCEPT !.cursor = field.to, !.value = value])
    BY <1>4, <2>1, <2>2 DEF IsReader
  <2> QED
    BY <2>1, <2>2, <2>3 DEF top
<1>6. LieInEachOther(Append(Below, passed), to)
  BY <1>1, <1>5, LastGoesOn DEF Below
<1>7. Append(Below, passed) # << >> /\ Last(Append(Below, passed)) = passed
  BY <1>1, FrontIs, Appended, EmptySeq DEF Below, Last, IsSequence
<1>8. IsReader(opened) /\ opened.end = field.to
  BY <1>4, OpenedIs
<1> HIDE DEF passed, opened, inner
<1>9. LieInEachOther(Append(Append(Below, passed), opened), to)
  BY <1>5, <1>6, <1>7, <1>8, OneMore DEF Last
<1>10. Append(Append(Below, passed), opened) # << >>
  BY <1>6, Appended, EmptySeq DEF LieInEachOther, IsSequence
<1>11. stack' = IF inner = {} THEN Append(Below, passed) ELSE Append(Append(Below, passed), opened)
  BY <1>3 DEF passed, opened, inner
<1> QED
  BY <1>6, <1>7, <1>9, <1>10, <1>11

\* and so does the end of a message.
LEMMA CloseMessageKeeps ==
  ASSUME NEW to, LieInEachOther(stack, to), stack # << >>, CloseMessage
  PROVE  LieInEachOther(stack', to) /\ stack' # << >>
<1> DEFINE n == Len(stack)
<1>1. /\ IsSequence(stack) /\ n \in Nat \ {0} /\ DOMAIN stack = 1..n
      /\ IsSequence(Below) /\ Len(Below) = n - 1 /\ DOMAIN Below = 1..n - 1
      /\ \A i \in 1..n - 1 : Below[i] = stack[i]
  BY FrontIs DEF LieInEachOther, Below
<1>2. n > 1
  BY DEF CloseMessage
<1>3. LieInEachOther(Below, to)
  <2>1. \A i \in 1..n : IsReader(stack[i]) /\ stack[i].end = IF i = 1 THEN to ELSE stack[i-1].cursor
    BY <1>1 DEF LieInEachOther
  <2> HIDE DEF n
  <2>2. ASSUME NEW i \in 1..n - 1
        PROVE  IsReader(Below[i]) /\ Below[i].end = IF i = 1 THEN to ELSE Below[i-1].cursor
    <3>1. Below[i] = stack[i] /\ (i # 1 => Below[i-1] = stack[i-1])
      BY <1>1
    <3>2. i \in 1..n
      BY <1>1
    <3> QED
      BY <2>1, <3>1, <3>2
  <2> QED
    BY <1>1, <2>2 DEF LieInEachOther
<1>4. Below # << >>
  <2>1. 1 \in 1..n - 1
    BY <1>1, <1>2
  <2>2. DOMAIN Below # {}
    BY <1>1, <2>1
  <2> QED
    BY <2>2
<1> DEFINE value == Adopt(Last(Below).message, Last(Below).value, Top)
<1>5. stack' = [Below EXCEPT ![Len(Below)] = [Below[Len(Below)] EXCEPT !.value = value]]
  BY DEF CloseMessage, Last
<1> HIDE DEF value
<1>6. LieInEachOther(stack', to)
  BY <1>3, <1>4, <1>5, LastCollects
<1>7. DOMAIN stack' = DOMAIN Below /\ DOMAIN Below # {}
  BY <1>1, <1>2, <1>5
<1> QED
  BY <1>6, <1>7

\* So every step keeps it.
LEMMA DecodeInvNext == DecodeInv /\ [DecodeNext]_decodeVars => DecodeInv'
<1> SUFFICES ASSUME DecodeInv, [DecodeNext]_decodeVars PROVE DecodeInv'
  OBVIOUS
<1> USE DEF DecodeInv
<1>1. CASE UNCHANGED decodeVars
  BY <1>1 DEF decodeVars, body
<1>2. CASE RefuseFrame
  BY <1>2 DEF RefuseFrame, body
<1>3. CASE SkipTrailer
  <2>1. FrameIsWhole(offset) /\ offset' = FrameEnd(offset)
    BY <1>3 DEF SkipTrailer
  <2>2. offset' \in 0..Len(body)
    BY <2>1, FrameIs
  <2>3. UNCHANGED <<response, pc, messages, stack, nodes, edges, rows>>
    BY <1>3 DEF SkipTrailer
  <2> QED
    BY <2>2, <2>3 DEF body
<1>4. CASE TakeMessage
  <2>1. /\ FrameIsWhole(offset) /\ offset' = FrameEnd(offset)
        /\ messages' = <<[from |-> offset + 5, to |-> FrameEnd(offset)]>>
        /\ pc = "unframe" /\ UNCHANGED <<response, pc, stack, nodes, edges, rows>>
    BY <1>4 DEF TakeMessage
  <2>2. Len(body) \in Nat /\ FrameEnd(offset) \in 0..Len(body) /\ offset + 5 <= FrameEnd(offset)
    BY <2>1, FrameIs
  <2> DEFINE from == offset + 5
             to   == FrameEnd(offset)
  <2>3. from \in 0..Len(body) /\ to \in 0..Len(body) /\ from <= to
    BY <2>2
  <2>4. messages' = <<[from |-> from, to |-> to]>> /\ stack' = << >> /\ offset' = to
    BY <2>1
  <2> HIDE DEF from, to
  <2>5. body' = body
    BY <2>1 DEF body
  <2>6. \E f, t \in 0..Len(body') :
          f <= t /\ messages' = <<[from |-> f, to |-> t]>> /\ (stack' = << >> \/ LieInEachOther(stack', t))
    BY <2>3, <2>4, <2>5
  <2> QED
    BY <2>1, <2>2, <2>3, <2>4, <2>5, <2>6
<1>5. CASE EndOfFrames
  <2>1. CASE messages = << >>
    <3>1. pc' = "refused" /\ UNCHANGED <<response, offset, messages, stack>>
      BY <1>5, <2>1 DEF EndOfFrames
    <3> QED
      BY <3>1 DEF body
  <2>2. CASE messages # << >>
    <3>1. PICK from \in 0..Len(body), to \in 0..Len(body) : from <= to /\ messages = <<[from |-> from, to |-> to]>>
      BY <2>2
    <3>2. pc' = "read" /\ stack' = <<Reader("response", from, to)>> /\ UNCHANGED <<response, offset, messages>>
      BY <1>5, <2>2, <3>1 DEF EndOfFrames
    <3>3. LieInEachOther(stack', to) /\ stack' # << >>
      <4> DEFINE r == Reader("response", from, to)
      <4>1. IsReader(r) /\ r.end = to
        BY <3>1, OpenedIs
      <4> HIDE DEF r
      <4>2. <<r>> \in Seq({r}) /\ DOMAIN <<r>> = {1} /\ <<r>>[1] = r /\ <<r>> # << >>
        OBVIOUS
      <4>3. IsSequence(<<r>>)
        BY <4>2, SequenceIs
      <4> QED
        BY <3>2, <4>1, <4>2, <4>3 DEF LieInEachOther, r
    <3> QED
      BY <3>1, <3>2, <3>3 DEF body
  <2> QED
    BY <2>1, <2>2
<1>6. ASSUME pc = "read", pc' \in {"read", "done", "refused"}, UNCHANGED <<response, offset, messages>>,
             \A to : LieInEachOther(stack, to) => LieInEachOther(stack', to) /\ stack' # << >>
      PROVE  DecodeInv'
  <2>1. PICK from \in 0..Len(body), to \in 0..Len(body) :
          from <= to /\ messages = <<[from |-> from, to |-> to]>> /\ LieInEachOther(stack, to)
    BY <1>6
  <2>2. LieInEachOther(stack', to) /\ stack' # << >>
    BY <1>6, <2>1
  <2>3. body' = body
    BY <1>6 DEF body
  <2>4. \E f, t \in 0..Len(body') :
          f <= t /\ messages' = <<[from |-> f, to |-> t]>> /\ (stack' = << >> \/ LieInEachOther(stack', t))
    BY <1>6, <2>1, <2>2, <2>3
  <2> QED
    BY <1>6, <2>2, <2>3, <2>4
<1>7. CASE Malformed
  BY <1>6, <1>7 DEF Malformed
<1>8. CASE ReadField
  <2>1. /\ pc = "read" /\ UNCHANGED <<response, pc, offset, messages>>
        /\ \A to : LieInEachOther(stack, to) => LieInEachOther(stack', to) /\ stack' # << >>
    BY <1>8, ReadFieldKeeps DEF ReadField
  <2> QED
    BY <1>6, <2>1
<1>9. CASE CloseMessage
  <2>1. /\ pc = "read" /\ UNCHANGED <<response, pc, offset, messages>>
        /\ \A to : LieInEachOther(stack, to) => LieInEachOther(stack', to) /\ stack' # << >>
    BY <1>9, CloseMessageKeeps DEF CloseMessage
  <2> QED
    BY <1>6, <2>1
<1>10. CASE Join
  BY <1>6, <1>10 DEF Join
<1> QED
  BY <1>1, <1>2, <1>3, <1>4, <1>5, <1>7, <1>8, <1>9, <1>10 DEF DecodeNext, Unframe, ReadMessages

\* Whatever the bytes of an answer, no message that is read reaches past the end of the
\* one around it, and none past its frame (gcloud_topology.cpp:80, gcloud_client.cpp:410).
THEOREM MessagesLieInEachOther == DecodeSpec => []TypeOK
<1> QED
  BY DecodeInvInit, DecodeInvNext, DecodeInvImplies, PTL DEF DecodeSpec

-----------------------------------------------------------------------------
(* The rows tell the graph                                                 *)

\* Some numbers have a least one,
LEMMA LeastExists ==
  ASSUME NEW S \in SUBSET Nat, S # {}
  PROVE  \E x \in S : \A y \in S : x <= y
<1> DEFINE Initials == {0..x : x \in S}
<1>1. Initials \subseteq FiniteSubsetsOf(Nat) /\ Initials # {}
  <2>1. \A x \in S : 0..x \subseteq Nat /\ IsFiniteSet(0..x)
    BY FS_Interval
  <2> QED
    BY <2>1 DEF FiniteSubsetsOf
<1> HIDE DEF Initials
<1>2. PICK b \in Initials : \A c \in Initials : <<c, b>> \notin StrictSubsetOrdering(Nat)
  BY <1>1, FS_StrictSubsetOrderingWellFounded, WFMin
<1>3. PICK x \in S : b = 0..x
  BY DEF Initials
<1>4. ASSUME NEW y \in S, y < x PROVE FALSE
  <2>1. 0..y \subseteq 0..x /\ x \in 0..x /\ x \notin 0..y
    BY <1>4
  <2>2. 0..y \in Initials /\ 0..y \subseteq Nat /\ 0..x \subseteq Nat
    BY DEF Initials
  <2>3. <<0..y, 0..x>> \in StrictSubsetOrdering(Nat)
    BY <2>1, <2>2 DEF StrictSubsetOrdering
  <2> QED
    BY <1>2, <1>3, <2>2, <2>3
<1> QED
  BY <1>4

\* which is their Min,
LEMMA MinIsLeast ==
  ASSUME NEW S \in SUBSET Nat, S # {}
  PROVE  Min(S) \in S /\ \A y \in S : Min(S) <= y
BY LeastExists DEF Min

\* and if they have a bound, a greatest one, their Max.
LEMMA MaxIsGreatest ==
  ASSUME NEW n \in Nat, NEW S \in SUBSET (0..n), S # {}
  PROVE  Max(S) \in S /\ \A y \in S : y <= Max(S)
<1> DEFINE T == {n - x : x \in S}
<1>1. T \in SUBSET Nat /\ T # {}
  <2>1. \A x \in S : n - x \in Nat
    OBVIOUS
  <2>2. T \subseteq Nat
    BY <2>1
  <2>3. PICK x \in S : TRUE
    OBVIOUS
  <2>4. n - x \in T
    BY <2>3
  <2> QED
    BY <2>2, <2>4
<1>2. PICK t \in T : \A u \in T : t <= u
  BY <1>1, LeastExists
<1>3. PICK x \in S : t = n - x
  OBVIOUS
<1>4. \A y \in S : x >= y
  <2> SUFFICES ASSUME NEW y \in S PROVE x >= y
    OBVIOUS
  <2>1. n - x <= n - y
    BY <1>2, <1>3
  <2> QED
    BY <2>1
<1> QED
  BY <1>3, <1>4 DEF Max

\* What is found of the keys is what the properties say.
LEMMA FoundIsSaid ==
  ASSUME NEW properties, IsSequence(properties), NEW keys, IsSequence(keys)
  PROVE  Says(properties, keys, FindStringProperty(properties, keys))
<1> DEFINE found(k) == {p \in DOMAIN properties : properties[p].key = keys[k] /\ properties[p].value.kind = "STRING"}
           known    == {k \in DOMAIN keys : found(k) # {}}
           strings  == {s \in (DOMAIN keys) \X (DOMAIN properties) :
                          properties[s[2]].key = keys[s[1]] /\ properties[s[2]].value.kind = "STRING"}
           text     == FindStringProperty(properties, keys)
<1>1. DOMAIN keys \subseteq Nat /\ DOMAIN properties \subseteq Nat
  BY SequenceIs DEF IsSequence
<1>2. CASE known = {}
  <2>1. text = << >>
    BY <1>2 DEF FindStringProperty
  <2>2. strings = {}
    BY <1>2
  <2> QED
    BY <2>1, <2>2 DEF Says
<1>3. CASE known # {}
  <2> DEFINE k == Min(known)
             p == Min(found(k))
  <2>1. k \in known /\ \A l \in known : k <= l
    BY <1>1, <1>3, MinIsLeast
  <2>2. p \in found(k) /\ \A q \in found(k) : p <= q
    BY <1>1, <2>1, MinIsLeast
  <2>3. text = properties[p].value.content
    BY <1>3 DEF FindStringProperty
  <2> HIDE DEF k, p, text
  <2>4. <<k, p>> \in strings
    BY <2>1, <2>2
  <2>5. ASSUME NEW t \in strings
        PROVE  k < t[1] \/ (k = t[1] /\ p <= t[2])
    <3>1. t[1] \in known /\ t[2] \in found(t[1]) /\ t[1] \in Nat /\ k \in Nat
      BY <1>1, <2>1
    <3> HIDE DEF known, found
    <3> QED
      BY <2>1, <2>2, <3>1
  <2> HIDE DEF strings
  <2>6. \E s \in strings : /\ text = properties[s[2]].value.content
                           /\ \A t \in strings : s[1] < t[1] \/ (s[1] = t[1] /\ s[2] <= t[2])
    <3> WITNESS <<k, p>> \in strings
    <3> QED
      BY <2>3, <2>5
  <2>7. strings # {}
    BY <2>4
  <2> QED
    BY <2>6, <2>7 DEF Says, strings, text
<1> QED
  BY <1>2, <1>3

\* What is left of a sequence is a suffix of it.
LEMMA SuffixIs ==
  ASSUME NEW S, NEW id \in Seq(S), NEW start \in Nat, start <= Len(id)
  PROVE  LET text == SubSeq(id, start + 1, Len(id)) IN
         /\ text \in Seq(S) /\ Len(text) = Len(id) - start /\ Len(id) \in Nat
         /\ \A i \in 1..Len(id) - start : text[i] = id[start + i]
         /\ IsSuffix(text, id)
<1> DEFINE n    == Len(id)
           text == SubSeq(id, start + 1, n)
           m    == n - start
<1>1. n \in Nat /\ \A i \in 1..n : id[i] \in S
  BY LenProperties, ElementOfSeq
<1> HIDE DEF n
<1>2. /\ text \in Seq(S)
      /\ Len(text) = IF start + 1 <= n THEN n - (start + 1) + 1 ELSE 0
      /\ \A i \in 1..n - (start + 1) + 1 : text[i] = id[(start + 1) + i - 1]
  <2>1. \A i \in start + 1..n : id[i] \in S
    BY <1>1
  <2> QED
    BY <1>1, <2>1, SubSeqProperties
<1> HIDE DEF text
<1>3. m \in Nat /\ Len(text) = m /\ m <= n
  BY <1>1, <1>2 DEF n
<1>4. \A i \in 1..m : text[i] = id[start + i]
  <2> SUFFICES ASSUME NEW i \in 1..m PROVE text[i] = id[start + i]
    OBVIOUS
  <2>1. i \in 1..n - (start + 1) + 1 /\ (start + 1) + i - 1 = start + i
    BY <1>1
  <2> QED
    BY <1>2, <2>1
<1>5. IsSuffix(text, id)
  <2> DEFINE front == Reverse(text)
             back  == Reverse(id)
  <2>1. front = [i \in 1..m |-> text[(m - i) + 1]] /\ back = [i \in 1..n |-> id[(n - i) + 1]]
    BY <1>3 DEF Reverse, n
  <2> HIDE DEF front, back
  <2>2. \A i \in 1..m : text[(m - i) + 1] \in S
    <3> SUFFICES ASSUME NEW i \in 1..m PROVE text[(m - i) + 1] \in S
      OBVIOUS
    <3>1. (m - i) + 1 \in 1..m
      BY <1>3
    <3> QED
      BY <1>2, <1>3, <3>1, ElementOfSeq
  <2>3. \A i \in 1..n : id[(n - i) + 1] \in S
    <3> SUFFICES ASSUME NEW i \in 1..n PROVE id[(n - i) + 1] \in S
      OBVIOUS
    <3>1. (n - i) + 1 \in 1..n
      BY <1>1
    <3> QED
      BY <1>1, <3>1
  <2>4. front \in Seq(S) /\ Len(front) = m /\ back \in Seq(S) /\ Len(back) = n
    <3> DEFINE a(i) == text[(m - i) + 1]
               b(i) == id[(n - i) + 1]
    <3>1. front = [i \in 1..m |-> a(i)] /\ back = [i \in 1..n |-> b(i)]
      BY <2>1
    <3>2. (\A i \in 1..m : a(i) \in S) /\ (\A i \in 1..n : b(i) \in S)
      BY <2>2, <2>3
    <3>3. m \in Nat /\ n \in Nat
      BY <1>1, <1>3
    <3> HIDE DEF a, b, m
    <3>4. front \in Seq(S) /\ Len(front) = m
      BY <3>1, <3>2, <3>3
    <3>5. back \in Seq(S) /\ Len(back) = n
      BY <3>1, <3>2, <3>3
    <3> QED
      BY <3>4, <3>5
  <2>5. \A i \in 1..m : front[i] = back[i]
    <3> SUFFICES ASSUME NEW i \in 1..m PROVE front[i] = back[i]
      OBVIOUS
    <3>1. (m - i) + 1 \in 1..m /\ start + ((m - i) + 1) = (n - i) + 1 /\ i \in 1..n
      BY <1>1, <1>3
    <3>2. text[(m - i) + 1] = id[(n - i) + 1]
      BY <1>4, <3>1
    <3> QED
      BY <2>1, <3>1, <3>2
  <2> HIDE DEF m
  <2>6. SubSeq(front, 1, m) = SubSeq(back, 1, m)
    <3>1. \A i \in 1..m : front[i] \in S /\ back[i] \in S
      BY <1>1, <1>3, <2>4, ElementOfSeq
    <3>2. /\ SubSeq(front, 1, m) \in Seq(S) /\ SubSeq(back, 1, m) \in Seq(S)
          /\ Len(SubSeq(front, 1, m)) = IF 1 <= m THEN m - 1 + 1 ELSE 0
          /\ Len(SubSeq(back, 1, m)) = IF 1 <= m THEN m - 1 + 1 ELSE 0
          /\ \A i \in 1..m - 1 + 1 : SubSeq(front, 1, m)[i] = front[1 + i - 1]
          /\ \A i \in 1..m - 1 + 1 : SubSeq(back, 1, m)[i] = back[1 + i - 1]
      BY <1>3, <3>1, SubSeqProperties
    <3>3. Len(SubSeq(front, 1, m)) = m /\ Len(SubSeq(back, 1, m)) = m
      BY <1>3, <3>2
    <3>4. \A i \in 1..m : SubSeq(front, 1, m)[i] = front[i] /\ SubSeq(back, 1, m)[i] = back[i]
      BY <1>3, <3>2
    <3> QED
      BY <2>5, <3>2, <3>3, <3>4, SeqEqual
  <2> QED
    BY <1>1, <1>3, <2>4, <2>6 DEF IsSuffix, IsPrefix, front, back
<1> QED
  BY <1>1, <1>2, <1>3, <1>4, <1>5 DEF n, text

\* LastResourceSegment finds what follows the last separator (gcloud_topology.cpp).
LEMMA SegmentIs ==
  ASSUME NEW id \in Seq(Byte)
  PROVE  IsSegmentOf(LastResourceSegment(id), id)
<1> DEFINE n     == Len(id)
           ends  == {i \in DOMAIN id : id[i] \in Separators}
           start == Max({0} \cup ends)
           text  == LastResourceSegment(id)
<1>1. n \in Nat /\ DOMAIN id = 1..n
  BY LenProperties
<1>2. start \in {0} \cup ends /\ \A y \in {0} \cup ends : y <= start
  <2>1. {0} \cup ends \in SUBSET (0..n) /\ {0} \cup ends # {}
    BY <1>1
  <2> QED
    BY <1>1, <2>1, MaxIsGreatest
<1>3. text = IF start < n THEN SubSeq(id, start + 1, n) ELSE id
  BY DEF LastResourceSegment
<1>4. start \in 0..n
  BY <1>1, <1>2
<1> HIDE DEF n, start, text
<1>5. CASE start < n
  <2>1. /\ text \in Seq(Byte) /\ Len(text) = n - start
        /\ \A i \in 1..n - start : text[i] = id[start + i]
        /\ IsSuffix(text, id)
    BY <1>3, <1>4, <1>5, SuffixIs DEF n
  <2>2. DOMAIN text = 1..n - start
    BY <2>1, LenProperties
  <2>3. text # << >>
    BY <1>1, <1>4, <1>5, <2>1, EmptySeq
  <2>4. \A i \in DOMAIN text : text[i] \notin Separators
    <3> SUFFICES ASSUME NEW i \in 1..n - start, text[i] \in Separators PROVE FALSE
      BY <2>2
    <3>1. start + i \in 1..n /\ start + i > start
      BY <1>1, <1>4
    <3>2. start + i \in ends
      BY <1>1, <2>1, <3>1
    <3> QED
      BY <1>2, <1>4, <3>1, <3>2
  <2>5. Len(text) < n => id[n - Len(text)] \in Separators
    <3> SUFFICES ASSUME Len(text) < n PROVE id[n - Len(text)] \in Separators
      OBVIOUS
    <3>1. n - Len(text) = start /\ start # 0
      BY <1>1, <1>4, <2>1
    <3> QED
      BY <1>2, <3>1
  <2> QED
    BY <2>1, <2>3, <2>4, <2>5 DEF IsSegmentOf, n, text
<1>6. CASE ~(start < n)
  <2>1. text = id /\ start = n
    BY <1>1, <1>3, <1>4, <1>6
  <2>2. id # << >> => n \in Nat \ {0}
    BY EmptySeq DEF n
  <2>3. id # << >> => id[n] \in Separators
    BY <1>2, <2>1, <2>2
  <2> QED
    BY <2>1, <2>3 DEF IsSegmentOf, n, text
<1> QED
  BY <1>5, <1>6

\* A text is its prefix and what follows.
LEMMA PrefixGoesOn ==
  ASSUME NEW S, NEW prefix \in Seq(S), NEW text \in Seq(S), IsPrefix(prefix, text)
  PROVE  text = prefix \o SubSeq(text, Len(prefix) + 1, Len(text))
<1>1. Len(prefix) \in Nat /\ Len(text) \in Nat /\ Len(prefix) <= Len(text)
  BY LenProperties DEF IsPrefix
<1>2. SubSeq(prefix, 1, Len(prefix)) = SubSeq(text, 1, Len(prefix))
  BY DEF IsPrefix
<1>3. prefix = SubSeq(text, 1, Len(prefix))
  BY <1>2, SubSeqFull
<1>4. SubSeq(text, 1, Len(prefix)) \o SubSeq(text, Len(prefix) + 1, Len(text)) = SubSeq(text, 1, Len(text))
  <2> DEFINE a == Len(prefix)
             b == Len(text)
  <2>1. 1 \in 1..b + 1 /\ a \in 1 - 1..b /\ b \in a..b
    BY <1>1
  <2> HIDE DEF a
  <2>2. SubSeq(text, 1, a) \o SubSeq(text, a + 1, b) = SubSeq(text, 1, b)
    BY <2>1, ConcatAdjacentSubSeq
  <2> QED
    BY <2>2 DEF a
<1>5. SubSeq(text, 1, Len(text)) = text
  BY SubSeqFull
<1> QED
  BY <1>3, <1>4, <1>5

\* ConcreteType finds the last label that is not generic, or the property.
LEMMA TypeIs ==
  ASSUME NEW node, node.labels \in Seq(Seq(Byte)), IsSequence(node.properties)
  PROVE  IsTypeOf(ConcreteType(node.labels, FindStringProperty(node.properties, TypeKeys)), node)
<1> DEFINE labels   == node.labels
           found    == FindStringProperty(node.properties, TypeKeys)
           text     == ConcreteType(labels, found)
           concrete == {i \in DOMAIN labels : labels[i] \notin GenericLabels}
<1>1. Len(labels) \in Nat /\ DOMAIN labels = 1..Len(labels)
  BY LenProperties
<1>2. BasePrefix \in Seq(Byte) /\ IsSequence(TypeKeys)
  <2>1. TypeKeys \in Seq(Seq(Byte))
    BY KeysAssumption
  <2> QED
    BY <2>1, KeysAssumption, SequenceIs
<1> HIDE DEF labels
<1>3. CASE concrete = {}
  <2>1. text = found
    BY <1>3 DEF ConcreteType
  <2>2. Says(node.properties, TypeKeys, found)
    BY <1>2, FoundIsSaid
  <2>3. \A l \in DOMAIN labels : labels[l] \in GenericLabels
    BY <1>3
  <2> HIDE DEF text
  <2> QED
    BY <2>1, <2>2, <2>3 DEF IsTypeOf, text, labels
<1>4. CASE concrete # {}
  <2> DEFINE l     == Max(concrete)
             label == labels[l]
  <2>1. l \in concrete /\ \A m \in concrete : m <= l
    <3>1. concrete \in SUBSET (0..Len(labels))
      BY <1>1
    <3> HIDE DEF concrete
    <3> QED
      BY <1>1, <1>4, <3>1, MaxIsGreatest
  <2>2. text = IF IsPrefix(BasePrefix, label) THEN SubSeq(label, Len(BasePrefix) + 1, Len(label)) ELSE label
    BY <1>4 DEF ConcreteType
  <2> HIDE DEF l
  <2>3. l \in DOMAIN labels /\ label \notin GenericLabels /\ label \in Seq(Byte)
    <3>1. l \in 1..Len(labels) /\ label \notin GenericLabels
      BY <1>1, <2>1
    <3>2. labels \in Seq(Seq(Byte))
      BY DEF labels
    <3> QED
      BY <1>1, <3>1, <3>2, ElementOfSeq
  <2>4. \A m \in DOMAIN labels : m > l => labels[m] \in GenericLabels
    <3> SUFFICES ASSUME NEW m \in DOMAIN labels, m > l, labels[m] \notin GenericLabels
                 PROVE  FALSE
      OBVIOUS
    <3>1. m \in concrete /\ m \in Nat /\ l \in Nat
      BY <1>1, <2>3
    <3>2. m <= l
      BY <2>1, <3>1
    <3> QED
      BY <3>1, <3>2
  <2> HIDE DEF text
  <2>5. \/ label = BasePrefix \o text
        \/ label = text /\ ~IsPrefix(BasePrefix, text)
    <3> HIDE DEF label
    <3>1. CASE IsPrefix(BasePrefix, label)
      BY <1>2, <2>2, <2>3, <3>1, PrefixGoesOn
    <3>2. CASE ~IsPrefix(BasePrefix, label)
      BY <2>2, <3>2
    <3> QED
      BY <3>1, <3>2
  <2> QED
    BY <2>3, <2>4, <2>5 DEF IsTypeOf, text, labels
<1> QED
  BY <1>3, <1>4

\* What ParseNode makes of a node is what the graph says of it.
LEMMA NodeIs ==
  ASSUME NEW node, IsNode(node)
  PROVE  /\ Node(node).id = node.id
         /\ IsNameOf(Node(node).service_name, node)
         /\ IsTypeOf(Node(node).type, node)
         /\ Says(node.properties, EnvironmentKeys, Node(node).environment)
         /\ Node(node).attributes = AttributesJson(node.properties, node.id, node.labels)
<1> DEFINE name        == FindStringProperty(node.properties, NameKeys)
           environment == FindStringProperty(node.properties, EnvironmentKeys)
           type        == ConcreteType(node.labels, FindStringProperty(node.properties, TypeKeys))
           segment     == LastResourceSegment(node.id)
           attributes  == AttributesJson(node.properties, node.id, node.labels)
<1>1. IsSequence(NameKeys) /\ IsSequence(EnvironmentKeys)
  <2>1. NameKeys \in Seq(Seq(Byte)) /\ EnvironmentKeys \in Seq(Seq(Byte))
    BY KeysAssumption
  <2> QED
    BY <2>1, SequenceIs
<1>2. Says(node.properties, NameKeys, name) /\ Says(node.properties, EnvironmentKeys, environment)
  BY <1>1, FoundIsSaid DEF IsNode
<1>3. IsTypeOf(type, node)
  BY TypeIs DEF IsNode
<1>4. IsSegmentOf(segment, node.id)
  BY SegmentIs DEF IsNode
<1> HIDE DEF name, environment, type, segment, attributes
<1>5. /\ Node(node).id = node.id
      /\ Node(node).service_name = IF name = << >> THEN segment ELSE name
      /\ Node(node).type = type /\ Node(node).environment = environment /\ Node(node).attributes = attributes
  BY DEF Node, name, environment, type, segment, attributes
<1>6. IsNameOf(Node(node).service_name, node)
  BY <1>2, <1>4, <1>5 DEF IsNameOf
<1> QED
  BY <1>2, <1>3, <1>5, <1>6 DEF attributes

\* An id means the last node that has it.
LEMMA IdIsMeant ==
  ASSUME NEW graph, IsGraph(graph), GraphIsRead(graph), NEW id \in Seq(Byte)
  PROVE  LET node == NodeById(id) IN
         /\ TellsEnd(graph, id, node.service_name, node.type, node.attributes)
         /\ SaysEnvironment(graph, id, node.environment)
<1> DEFINE given == graph.nodes
           known == {i \in DOMAIN nodes : nodes[i].id = id /\ id # << >>}
           node  == NodeById(id)
<1>1. IsSequence(given) /\ Len(given) \in Nat /\ DOMAIN given = 1..Len(given)
  <2>1. IsSequence(given)
    BY DEF IsGraph
  <2> QED
    BY <2>1, SequenceIs DEF IsSequence
<1>2. DOMAIN nodes = DOMAIN given /\ \A n \in DOMAIN given : nodes[n] = Node(given[n]) /\ IsNode(given[n])
  BY DEF GraphIsRead, NodesOf, IsGraph
<1>3. \A n \in DOMAIN given : nodes[n].id = given[n].id
  BY <1>2, NodeIs
<1> HIDE DEF given
<1>4. CASE known # {}
  <2> DEFINE n == Max(known)
  <2>1. n \in known /\ \A m \in known : m <= n
    <3>1. known \in SUBSET (0..Len(given))
      BY <1>1, <1>2
    <3> HIDE DEF known
    <3> QED
      BY <1>1, <1>4, <3>1, MaxIsGreatest
  <2>2. node = nodes[n]
    BY <1>4 DEF NodeById
  <2> HIDE DEF n, node
  <2>3. n \in DOMAIN given /\ given[n].id = id /\ id # << >>
    BY <1>2, <1>3, <2>1
  <2>4. \A m \in DOMAIN given : m > n => given[m].id # id
    <3> SUFFICES ASSUME NEW m \in DOMAIN given, m > n, given[m].id = id PROVE FALSE
      OBVIOUS
    <3>1. m \in known /\ m \in Nat /\ n \in Nat
      BY <1>1, <1>2, <1>3, <2>3
    <3>2. m <= n
      BY <2>1, <3>1
    <3> QED
      BY <3>1, <3>2
  <2>5. n \in Meant(graph, id)
    BY <2>3, <2>4 DEF Meant, given
  <2>6. /\ IsNameOf(node.service_name, given[n]) /\ IsTypeOf(node.type, given[n])
        /\ Says(given[n].properties, EnvironmentKeys, node.environment)
        /\ node.attributes = AttributesJson(given[n].properties, given[n].id, given[n].labels)
    <3>1. node = Node(given[n]) /\ IsNode(given[n])
      BY <1>2, <2>2, <2>3
    <3> QED
      BY <3>1, NodeIs
  <2>7. TellsEnd(graph, id, node.service_name, node.type, node.attributes)
    BY <2>5, <2>6 DEF TellsEnd, given
  <2>8. SaysEnvironment(graph, id, node.environment)
    BY <2>5, <2>6 DEF SaysEnvironment, given
  <2> QED
    BY <2>7, <2>8 DEF node
<1>5. CASE known = {}
  <2> DEFINE segment    == LastResourceSegment(id)
             attributes == NoAttributes
  <2>1. IsSegmentOf(segment, id)
    BY SegmentIs
  <2> HIDE DEF segment, attributes
  <2>2. /\ node.service_name = segment /\ node.type = << >> /\ node.environment = << >>
        /\ node.attributes = attributes
    BY <1>5 DEF NodeById, segment, attributes
  <2>3. Meant(graph, id) = {}
    <3>1. \A n \in DOMAIN given : ~(id # << >> /\ given[n].id = id)
      BY <1>2, <1>3, <1>5
    <3> QED
      BY <3>1 DEF Meant, given
  <2> HIDE DEF node
  <2>4. TellsEnd(graph, id, node.service_name, node.type, node.attributes)
    BY <2>1, <2>2, <2>3 DEF TellsEnd, attributes
  <2>5. SaysEnvironment(graph, id, node.environment)
    BY <2>2, <2>3 DEF SaysEnvironment
  <2> QED
    BY <2>4, <2>5 DEF node
<1> QED
  BY <1>4, <1>5

\* A dependency is an edge with what the graph says of its two ends.
LEMMA DependencyTells ==
  ASSUME NEW graph, IsGraph(graph), GraphIsRead(graph), NEW edge,
         edge.source_id \in Seq(Byte), edge.target_id \in Seq(Byte)
  PROVE  LET dep == Dependency(edge) IN
         /\ TellsEnd(graph, edge.source_id, dep.source_service, dep.source_type, dep.source_attributes)
         /\ TellsEnd(graph, edge.target_id, dep.target_service, dep.target_type, dep.target_attributes)
         /\ dep.edge_type = IF edge.type = SendsTraffic THEN SendsTrafficTo ELSE edge.type
         /\ dep.edge_attributes = AttributesJson(edge.properties, << >>, edge.labels)
         /\ \/ dep.environment # << >> /\ SaysEnvironment(graph, edge.source_id, dep.environment)
            \/ /\ SaysEnvironment(graph, edge.source_id, << >>)
               /\ SaysEnvironment(graph, edge.target_id, dep.environment)
<1> DEFINE source     == NodeById(edge.source_id)
           target     == NodeById(edge.target_id)
           type       == IF edge.type = SendsTraffic THEN SendsTrafficTo ELSE edge.type
           attributes == AttributesJson(edge.properties, << >>, edge.labels)
           dep        == Dependency(edge)
<1>1. /\ TellsEnd(graph, edge.source_id, source.service_name, source.type, source.attributes)
      /\ SaysEnvironment(graph, edge.source_id, source.environment)
      /\ TellsEnd(graph, edge.target_id, target.service_name, target.type, target.attributes)
      /\ SaysEnvironment(graph, edge.target_id, target.environment)
  BY IdIsMeant
<1> HIDE DEF source, target, type, attributes
<1>2. /\ dep.source_service = source.service_name /\ dep.source_type = source.type
      /\ dep.source_attributes = source.attributes
      /\ dep.target_service = target.service_name /\ dep.target_type = target.type
      /\ dep.target_attributes = target.attributes
      /\ dep.edge_type = type /\ dep.edge_attributes = attributes
      /\ dep.environment = IF source.environment = << >> THEN target.environment ELSE source.environment
  BY DEF Dependency, source, target, type, attributes
<1> HIDE DEF dep
<1>3. \/ dep.environment # << >> /\ SaysEnvironment(graph, edge.source_id, dep.environment)
      \/ /\ SaysEnvironment(graph, edge.source_id, << >>)
         /\ SaysEnvironment(graph, edge.target_id, dep.environment)
  BY <1>1, <1>2
<1> QED
  BY <1>1, <1>2, <1>3 DEF dep, type, attributes

\* The rows are joined once.
Joined  == [i \in DOMAIN edges |-> Dependency(edges[i])]
JoinInv == pc = "done" => rows = Joined

\* Every step keeps it.
LEMMA JoinInvNext == JoinInv /\ [DecodeNext]_decodeVars => JoinInv'
<1> SUFFICES ASSUME JoinInv, [DecodeNext]_decodeVars PROVE JoinInv'
  OBVIOUS
<1>1. CASE UNCHANGED decodeVars
  <2>1. pc' = pc /\ nodes' = nodes /\ edges' = edges /\ rows' = rows
    BY <1>1 DEF decodeVars
  <2>2. Joined' = Joined
    BY <2>1 DEF Joined, Dependency, NodeById
  <2> QED
    BY <2>1, <2>2 DEF JoinInv
<1>2. CASE Unframe
  <2>1. pc' # "done"
    BY <1>2 DEF Unframe, RefuseFrame, SkipTrailer, TakeMessage, EndOfFrames
  <2> QED
    BY <2>1 DEF JoinInv
<1>3. CASE Malformed \/ ReadField \/ CloseMessage
  <2>1. pc' # "done"
    BY <1>3 DEF Malformed, ReadField, CloseMessage
  <2> QED
    BY <2>1 DEF JoinInv
<1>4. CASE Join
  <2>1. nodes' = nodes /\ edges' = edges /\ rows' = Joined
    BY <1>4 DEF Join, Joined
  <2>2. Joined' = Joined
    BY <2>1 DEF Joined, Dependency, NodeById
  <2> QED
    BY <2>1, <2>2 DEF JoinInv
<1> QED
  BY <1>1, <1>2, <1>3, <1>4 DEF DecodeNext, ReadMessages

\* The rows that were joined tell of any graph that was read.
LEMMA JoinedTell ==
  ASSUME JoinInv, pc = "done", NEW graph, IsGraph(graph), GraphIsRead(graph)
  PROVE  RowsTell(graph)
<1>1. edges = graph.edges /\ rows = [i \in DOMAIN graph.edges |-> Dependency(graph.edges[i])]
  BY DEF JoinInv, Joined, GraphIsRead
<1>2. IsSequence(graph.edges) /\ Len(graph.edges) \in Nat /\ DOMAIN graph.edges = 1..Len(graph.edges)
  <2>1. IsSequence(graph.edges)
    BY DEF IsGraph
  <2> QED
    BY <2>1, SequenceIs DEF IsSequence
<1>3. Len(rows) = Len(graph.edges) /\ DOMAIN rows = DOMAIN graph.edges
  BY <1>1, <1>2
<1>4. \A i \in DOMAIN rows : rows[i] = Dependency(graph.edges[i])
  BY <1>1
<1> QED
  BY <1>3, <1>4, DependencyTells DEF RowsTell, IsGraph

\* Once the graph of an answer is read, the rows are its edges, each with what the graph
\* says of its two ends: the last node that has the id, the first of the keys that names
\* the service, the last label that is not generic (gcloud_topology.cpp:447).
THEOREM RowsTellTheGraph ==
  DecodeSpec => [](response.whole /\ pc = "done" /\ GraphIsRead(response.graph) => RowsTell(response.graph))
<1>1. DecodeInv /\ JoinInv =>
        (response.whole /\ pc = "done" /\ GraphIsRead(response.graph) => RowsTell(response.graph))
  <2> SUFFICES ASSUME DecodeInv, JoinInv, response.whole, pc = "done", GraphIsRead(response.graph)
               PROVE  RowsTell(response.graph)
    OBVIOUS
  <2>1. IsGraph(response.graph)
    BY GraphsAssumption DEF DecodeInv
  <2> QED
    BY <2>1, JoinedTell
<1>2. DecodeInit => JoinInv
  BY DEF DecodeInit, JoinInv
<1> QED
  BY <1>1, <1>2, JoinInvNext, DecodeInvInit, DecodeInvNext, PTL DEF DecodeSpec

-----------------------------------------------------------------------------
(* What the bytes say                                                      *)

\* How far a message has been read: at its position at, the value it has so far, and the
\* nodes and edges of the whole answer.  The frames are at depth 0, the response at 1.
Fact(depth, message, end, at, value, ns, es) ==
  [depth |-> depth, message |-> message, end |-> end, at |-> at, value |-> value, nodes |-> ns, edges |-> es]

\* How the frames go on.
FramesSay(R, f) ==
  /\ f.at # f.end /\ FrameIsWhole(f.at) /\ ~Compressed(f.at) =>
       /\ Trailer(f.at) => Fact(0, f.message, f.end, FrameEnd(f.at), f.value, << >>, << >>) \in R
       /\ ~Trailer(f.at) /\ f.value = << >> =>
            Fact(0, f.message, f.end, FrameEnd(f.at), <<[from |-> f.at + 5, to |-> FrameEnd(f.at)]>>,
                 << >>, << >>) \in R
  /\ f.at = f.end /\ f.value # << >> =>
       Fact(1, "response", f.value[1].to, f.value[1].from, Blank("response"), << >>, << >>) \in R

\* What has been read to its end ends a message inside another one.
Ends(g, depth, message, end) == g.depth = depth /\ g.message = message /\ g.end = end /\ g.at = end

NodesWith(g) == IF g.message = "node" THEN Append(g.nodes, Node(g.value)) ELSE g.nodes
EdgesWith(g) == IF g.message = "edge" THEN Append(g.edges, g.value) ELSE g.edges

\* How a message goes on: with each field, and where that holds a message, once that is read.
MessageSays(R, f) ==
  f.at # f.end =>
    \A field \in Fields(f.at, f.end) :
      LET value == Absorb(f.message, f.value, field)
          inner == Opened(f.message, field)
          child == (CHOOSE nested \in inner : TRUE)[3]
      IN  IF inner = {} THEN Fact(f.depth, f.message, f.end, field.to, value, f.nodes, f.edges) \in R
          ELSE /\ Fact(f.depth + 1, child, field.to, field.from, Blank(child), f.nodes, f.edges) \in R
               /\ \A g \in R : Ends(g, f.depth + 1, child, field.to) =>
                    Fact(f.depth, f.message, f.end, field.to, Adopt(f.message, value, g),
                         NodesWith(g), EdgesWith(g)) \in R

\* R holds all that the bytes of the answer say, read from their start.
IsReading(R) ==
  /\ Fact(0, "frames", Len(body), 0, << >>, << >>, << >>) \in R
  /\ \A f \in R : IF f.depth = 0 THEN FramesSay(R, f) ELSE MessageSays(R, f)

\* The bytes cannot be read on: a frame that is cut short, compressed or a second message, no
\* frame with a message, or no field where one should be.
IsFault(f) ==
  IF f.depth = 0
  THEN \/ f.at # f.end /\ (FrameIsWhole(f.at) => Compressed(f.at) \/ (~Trailer(f.at) /\ f.value # << >>))
       \/ f.at = f.end /\ f.value = << >>
  ELSE f.at # f.end /\ Fields(f.at, f.end) = {}

\* The response has been read.
IsEnd(f) == f.depth = 1 /\ f.at = f.end

\* The bytes are those of the graph.
Encodes(graph) ==
  \E R : /\ IsReading(R)
         /\ \A f \in R : ~IsFault(f) /\ (IsEnd(f) => f.nodes = NodesOf(graph) /\ f.edges = graph.edges)

-----------------------------------------------------------------------------
(* What is decoded is what the bytes say                                   *)

\* What is read depends on the answer alone.
LEMMA AnswerStays ==
  ASSUME response' = response
  PROVE  /\ body' = body
         /\ \A R : IsReading(R)' <=> IsReading(R)
         /\ \A f : IsFault(f)' <=> IsFault(f)
<1>1. body' = body
  BY DEF body
<1>2. \A at : /\ FrameIsWhole(at)' <=> FrameIsWhole(at)
              /\ Compressed(at)' <=> Compressed(at)
              /\ Trailer(at)' <=> Trailer(at)
              /\ FrameEnd(at)' = FrameEnd(at)
  BY <1>1 DEF FrameIsWhole, Compressed, Trailer, FrameEnd, Remaining, FrameLength, FrameFlags
<1>3. \A at, end : VarintLengths(at, end)' = VarintLengths(at, end)
  BY <1>1 DEF VarintLengths
<1>4. \A at, end : Varints(at, end)' = Varints(at, end)
  BY <1>1, <1>3 DEF Varints
<1>5. \A at, end : Fields(at, end)' = Fields(at, end)
  BY <1>1, <1>4 DEF Fields, Take
<1>6. \A message, value, field : Absorb(message, value, field)' = Absorb(message, value, field)
  BY <1>1 DEF Absorb, FieldString
<1>7. \A R, f : /\ FramesSay(R, f)' <=> FramesSay(R, f)
                /\ MessageSays(R, f)' <=> MessageSays(R, f)
  <2> SUFFICES ASSUME NEW R, NEW f
               PROVE  (FramesSay(R, f)' <=> FramesSay(R, f)) /\ (MessageSays(R, f)' <=> MessageSays(R, f))
    OBVIOUS
  <2>1. FramesSay(R, f)' <=> FramesSay(R, f)
    BY <1>2 DEF FramesSay
  <2>2. MessageSays(R, f)' <=> MessageSays(R, f)
    BY <1>5, <1>6 DEF MessageSays
  <2> QED
    BY <2>1, <2>2
<1>8. \A R : IsReading(R)' <=> IsReading(R)
  BY <1>1, <1>7 DEF IsReading
<1>9. \A f : IsFault(f)' <=> IsFault(f)
  BY <1>2, <1>5 DEF IsFault
<1> QED
  BY <1>1, <1>8, <1>9

\* What a message takes over from one inside it.
LEMMA AdoptedIs ==
  ASSUME NEW message, NEW value, NEW g, NEW h, g.message = h.message, g.value = h.value
  PROVE  Adopt(message, value, g) = Adopt(message, value, h)
  BY DEF Adopt

\* A reader waits for the one above it: whatever that reads, the reader goes on with it.
Waits(R, s, i) ==
  \A g \in R : Ends(g, i + 1, s[i + 1].message, s[i].cursor) =>
    Fact(i, s[i].message, s[i].end, s[i].cursor, Adopt(s[i].message, s[i].value, g),
         NodesWith(g), EdgesWith(g)) \in R

\* What the open readers have read is in R, and what they will make of it.
Stands(R, s, ns, es) ==
  /\ Fact(Len(s), s[Len(s)].message, s[Len(s)].end, s[Len(s)].cursor, s[Len(s)].value, ns, es) \in R
  /\ \A i \in 1..Len(s) - 1 : Waits(R, s, i)

\* The readers below the last one wait as they did.
LEMMA WaitOn ==
  ASSUME NEW R, NEW s, NEW t, NEW i, t[i] = s[i], t[i + 1].message = s[i + 1].message, Waits(R, s, i)
  PROVE  Waits(R, t, i)
  BY DEF Waits

\* The last reader has passed a field,
LEMMA PassedStands ==
  ASSUME NEW R, NEW s, IsSequence(s), s # << >>, NEW ns, NEW es, Stands(R, s, ns, es),
         NEW r, r.message = s[Len(s)].message
  PROVE  LET t == Append(Front(s), r) IN
         /\ IsSequence(t) /\ Len(t) = Len(s) /\ t[Len(t)] = r
         /\ \A i \in 1..Len(t) - 1 : Waits(R, t, i)
<1> DEFINE front == Front(s)
           n     == Len(s)
           t     == Append(front, r)
<1>1. /\ IsSequence(front) /\ n \in Nat \ {0}
      /\ Len(front) = n - 1 /\ \A i \in 1..n - 1 : front[i] = s[i]
  BY FrontIs
<1>2. \A i \in 1..n - 1 : Waits(R, s, i)
  BY DEF Stands
<1>3. r.message = s[n].message
  OBVIOUS
<1> HIDE DEF front, n
<1>4. /\ IsSequence(t) /\ Len(t) = n /\ t[n] = r
      /\ \A i \in 1..n - 1 : t[i] = s[i]
  <2>1. /\ IsSequence(t) /\ Len(t) = (n - 1) + 1 /\ t[(n - 1) + 1] = r
        /\ \A i \in 1..n - 1 : t[i] = front[i]
    BY <1>1, Appended
  <2>2. (n - 1) + 1 = n
    BY <1>1
  <2> QED
    BY <1>1, <2>1, <2>2
<1> HIDE DEF t
<1>5. ASSUME NEW i \in 1..n - 1 PROVE Waits(R, t, i)
  <2>1. t[i] = s[i] /\ Waits(R, s, i)
    BY <1>2, <1>4
  <2>2. t[i + 1].message = s[i + 1].message
    <3>1. CASE i + 1 = n
      BY <1>3, <1>4, <3>1
    <3>2. CASE i + 1 # n
      <4>1. i + 1 \in 1..n - 1
        BY <1>1, <3>2
      <4> QED
        BY <1>4, <4>1
    <3> QED
      BY <3>1, <3>2
  <2> QED
    BY <2>1, <2>2, WaitOn
<1> QED
  BY <1>4, <1>5 DEF t, front, n

\* and opens another one,
LEMMA OpenedStands ==
  ASSUME NEW R, NEW t, IsSequence(t), t # << >>, \A i \in 1..Len(t) - 1 : Waits(R, t, i),
         NEW ns, NEW es, NEW r,
         Fact(Len(t) + 1, r.message, r.end, r.cursor, r.value, ns, es) \in R,
         \A g \in R : Ends(g, Len(t) + 1, r.message, t[Len(t)].cursor) =>
           Fact(Len(t), t[Len(t)].message, t[Len(t)].end, t[Len(t)].cursor,
                Adopt(t[Len(t)].message, t[Len(t)].value, g), NodesWith(g), EdgesWith(g)) \in R
  PROVE  Stands(R, Append(t, r), ns, es)
<1> DEFINE n == Len(t)
           u == Append(t, r)
<1>1. /\ Len(u) = n + 1 /\ n \in Nat /\ u[n + 1] = r
      /\ \A i \in 1..n : u[i] = t[i]
  BY Appended
<1>2. n # 0
  BY EmptySeq DEF IsSequence
<1>3. /\ Fact(n + 1, r.message, r.end, r.cursor, r.value, ns, es) \in R
      /\ \A g \in R : Ends(g, n + 1, r.message, t[n].cursor) =>
           Fact(n, t[n].message, t[n].end, t[n].cursor, Adopt(t[n].message, t[n].value, g),
                NodesWith(g), EdgesWith(g)) \in R
      /\ \A i \in 1..n - 1 : Waits(R, t, i)
  OBVIOUS
<1> HIDE DEF n, u
<1>4. Waits(R, u, n)
  <2>1. u[n] = t[n] /\ u[n + 1] = r
    BY <1>1, <1>2
  <2> QED
    BY <1>3, <2>1 DEF Waits
<1>5. ASSUME NEW i \in 1..n - 1 PROVE Waits(R, u, i)
  <2>1. u[i] = t[i] /\ u[i + 1] = t[i + 1] /\ Waits(R, t, i)
    BY <1>1, <1>3
  <2> QED
    BY <2>1, WaitOn
<1>6. \A i \in 1..n : Waits(R, u, i)
  BY <1>1, <1>4, <1>5
<1>7. Len(u) = n + 1 /\ Len(u) - 1 = n /\ u[Len(u)] = r
  BY <1>1
<1> QED
  BY <1>3, <1>6, <1>7 DEF Stands, u

\* and what is read to its end goes to the reader below it.
LEMMA ClosedStands ==
  ASSUME NEW R, NEW s, IsSequence(s), Len(s) > 1, NEW ns, NEW es, Stands(R, s, ns, es),
         s[Len(s)].cursor = s[Len(s)].end, s[Len(s)].end = s[Len(s) - 1].cursor,
         NEW r, r.message = s[Len(s) - 1].message, r.end = s[Len(s) - 1].end,
         r.cursor = s[Len(s) - 1].cursor,
         r.value = Adopt(s[Len(s) - 1].message, s[Len(s) - 1].value, s[Len(s)]),
         NEW t, Len(t) = Len(s) - 1, t[Len(s) - 1] = r,
         \A i \in 1..Len(s) - 2 : t[i] = s[i],
         NEW ms, ms = IF s[Len(s)].message = "node" THEN Append(ns, Node(s[Len(s)].value)) ELSE ns,
         NEW ds, ds = IF s[Len(s)].message = "edge" THEN Append(es, s[Len(s)].value) ELSE es
  PROVE  Stands(R, t, ms, ds)
<1> DEFINE n     == Len(s)
           top   == s[n]
           outer == s[n - 1]
           g     == Fact(n, top.message, top.end, top.cursor, top.value, ns, es)
<1>1. n \in Nat /\ n > 1
  BY SequenceIs DEF IsSequence
<1>2. /\ g \in R /\ g.depth = n /\ g.message = top.message /\ g.end = top.end /\ g.at = top.cursor
      /\ g.value = top.value /\ g.nodes = ns /\ g.edges = es
  BY DEF Stands, Fact
<1>3. top.cursor = top.end /\ top.end = outer.cursor
  OBVIOUS
<1>4. NodesWith(g) = ms /\ EdgesWith(g) = ds
  <2> HIDE DEF g
  <2> QED
    BY <1>2 DEF NodesWith, EdgesWith
<1>5. r.value = Adopt(outer.message, outer.value, top)
  OBVIOUS
<1>6. \A i \in 1..n - 1 : Waits(R, s, i)
  BY DEF Stands
<1>7. /\ Len(t) = n - 1 /\ t[n - 1] = r /\ \A i \in 1..n - 2 : t[i] = s[i]
      /\ r.message = outer.message /\ r.end = outer.end /\ r.cursor = outer.cursor
  OBVIOUS
<1> HIDE DEF g, top
<1>8. Waits(R, s, n - 1) /\ (n - 1) + 1 = n
  BY <1>1, <1>6
<1>9. Ends(g, (n - 1) + 1, s[(n - 1) + 1].message, outer.cursor)
  BY <1>2, <1>3, <1>8 DEF Ends, top
<1>10. Fact(n - 1, outer.message, outer.end, outer.cursor, Adopt(outer.message, outer.value, g),
            NodesWith(g), EdgesWith(g)) \in R
  BY <1>2, <1>8, <1>9 DEF Waits
<1>11. Adopt(outer.message, outer.value, g) = r.value
  BY <1>2, <1>5, AdoptedIs
<1>12. Fact(n - 1, r.message, r.end, r.cursor, r.value, ms, ds) \in R
  BY <1>4, <1>7, <1>10, <1>11
<1> HIDE DEF n, outer
<1>13. ASSUME NEW i \in 1..(n - 1) - 1 PROVE Waits(R, t, i)
  <2>1. t[i] = s[i] /\ Waits(R, s, i)
    BY <1>1, <1>6, <1>7
  <2>2. t[i + 1].message = s[i + 1].message
    <3>1. CASE i + 1 = n - 1
      BY <1>7, <3>1 DEF outer
    <3>2. CASE i + 1 # n - 1
      <4>1. i + 1 \in 1..n - 2
        BY <1>1, <3>2
      <4> QED
        BY <1>7, <4>1
    <3> QED
      BY <3>1, <3>2
  <2> QED
    BY <2>1, <2>2, WaitOn
<1> QED
  BY <1>7, <1>12, <1>13 DEF Stands

\* What was read is in R, and so is what the rest will make of it.
Follows(R) ==
  /\ pc = "unframe" => /\ nodes = << >> /\ edges = << >>
                       /\ Fact(0, "frames", Len(body), offset, messages, << >>, << >>) \in R
  /\ pc = "read" => Stands(R, stack, nodes, edges)
  /\ pc = "done" => \E g \in R : IsEnd(g) /\ g.nodes = nodes /\ g.edges = edges
  /\ pc = "refused" => \E f \in R : IsFault(f)

ReadInv == \A R : IsReading(R) => Follows(R)

\* A field that is read is one the bytes say.
LEMMA ReadFieldFollows ==
  ASSUME NEW to, LieInEachOther(stack, to), stack # << >>, ReadField,
         NEW R, IsReading(R), Stands(R, stack, nodes, edges)
  PROVE  Stands(R, stack', nodes', edges')
<1> DEFINE n == Len(stack)
           f == Fact(n, Top.message, Top.end, Top.cursor, Top.value, nodes, edges)
<1>1. IsSequence(stack) /\ n \in Nat \ {0} /\ DOMAIN stack = 1..n /\ Top = stack[n] /\ IsReader(Top)
  BY FrontIs DEF LieInEachOther, Top, Last
<1>2. /\ f \in R /\ f.depth = n /\ f.message = Top.message /\ f.end = Top.end /\ f.at = Top.cursor
      /\ f.value = Top.value /\ f.nodes = nodes /\ f.edges = edges
  BY <1>1 DEF Stands, Fact
<1> HIDE DEF f
<1>3. MessageSays(R, f)
  BY <1>1, <1>2 DEF IsReading
<1>4. PICK field \in Fields(Top.cursor, Top.end) :
        LET passed == [Top EXCEPT !.cursor = field.to, !.value = Absorb(Top.message, Top.value, field)]
            inner  == Opened(Top.message, field)
        IN  stack' = IF inner = {} THEN Append(Below, passed)
                     ELSE Append(Append(Below, passed),
                                 Reader((CHOOSE nested \in inner : TRUE)[3], field.from, field.to))
  BY DEF ReadField
<1> DEFINE inner  == Opened(Top.message, field)
           child  == (CHOOSE nested \in inner : TRUE)[3]
           value  == Absorb(Top.message, Top.value, field)
           passed == [Top EXCEPT !.cursor = field.to, !.value = value]
           opened == Reader(child, field.from, field.to)
           t      == Append(Below, passed)
<1>5. IF inner = {} THEN Fact(n, Top.message, Top.end, field.to, value, nodes, edges) \in R
      ELSE /\ Fact(n + 1, child, field.to, field.from, Blank(child), nodes, edges) \in R
           /\ \A g \in R : Ends(g, n + 1, child, field.to) =>
                Fact(n, Top.message, Top.end, field.to, Adopt(Top.message, value, g),
                     NodesWith(g), EdgesWith(g)) \in R
  <2>1. f.at # f.end
    BY <1>2 DEF ReadField
  <2>2. IF inner = {} THEN Fact(f.depth, f.message, f.end, field.to, value, f.nodes, f.edges) \in R
        ELSE /\ Fact(f.depth + 1, child, field.to, field.from, Blank(child), f.nodes, f.edges) \in R
             /\ \A g \in R : Ends(g, f.depth + 1, child, field.to) =>
                  Fact(f.depth, f.message, f.end, field.to, Adopt(f.message, value, g),
                       NodesWith(g), EdgesWith(g)) \in R
    BY <1>2, <1>3, <2>1 DEF MessageSays
  <2> HIDE DEF inner, child, value
  <2> QED
    BY <1>2, <2>2
<1>6. /\ passed.message = Top.message /\ passed.cursor = field.to /\ passed.end = Top.end
      /\ passed.value = value
  <2> HIDE DEF value
  <2> DEFINE top == Top
  <2>1. IsReader(top)
    BY <1>1
  <2> HIDE DEF top
  <2>2. LET p == [top EXCEPT !.cursor = field.to, !.value = value] IN
        p.message = top.message /\ p.cursor = field.to /\ p.end = top.end /\ p.value = value
    BY <2>1 DEF IsReader
  <2> QED
    BY <2>2 DEF top
<1>7. /\ opened.message = child /\ opened.cursor = field.from /\ opened.end = field.to
      /\ opened.value = Blank(child)
  BY DEF Reader
<1>8. stack' = IF inner = {} THEN t ELSE Append(t, opened)
  BY <1>4
<1>9. nodes' = nodes /\ edges' = edges
  BY DEF ReadField
<1> HIDE DEF inner, child, value, passed, opened
<1>10. /\ IsSequence(t) /\ Len(t) = n /\ t[n] = passed /\ t # << >>
       /\ \A i \in 1..Len(t) - 1 : Waits(R, t, i)
  <2>1. /\ IsSequence(t) /\ Len(t) = n /\ t[n] = passed
        /\ \A i \in 1..Len(t) - 1 : Waits(R, t, i)
    BY <1>1, <1>6, PassedStands DEF Below
  <2>2. t # << >>
    BY <1>1, <2>1
  <2> QED
    BY <2>1, <2>2
<1> HIDE DEF t, n
<1>11. CASE inner = {}
  BY <1>5, <1>6, <1>8, <1>9, <1>10, <1>11 DEF Stands
<1>12. CASE inner # {}
  <2>1. Fact(Len(t) + 1, opened.message, opened.end, opened.cursor, opened.value, nodes, edges) \in R
    BY <1>5, <1>7, <1>10, <1>12
  <2>2. \A g \in R : Ends(g, Len(t) + 1, opened.message, t[Len(t)].cursor) =>
          Fact(Len(t), t[Len(t)].message, t[Len(t)].end, t[Len(t)].cursor,
               Adopt(t[Len(t)].message, t[Len(t)].value, g), NodesWith(g), EdgesWith(g)) \in R
    BY <1>5, <1>6, <1>7, <1>10, <1>12
  <2>3. Stands(R, Append(t, opened), nodes, edges)
    BY <1>10, <2>1, <2>2, OpenedStands
  <2> QED
    BY <1>8, <1>9, <1>12, <2>3
<1> QED
  BY <1>11, <1>12

\* A message that ends gives what the bytes say.
LEMMA CloseMessageFollows ==
  ASSUME NEW to, LieInEachOther(stack, to), stack # << >>, CloseMessage,
         NEW R, Stands(R, stack, nodes, edges)
  PROVE  Stands(R, stack', nodes', edges')
<1> DEFINE n     == Len(stack)
           outer == stack[n - 1]
           value == Adopt(outer.message, outer.value, stack[n])
           r     == [outer EXCEPT !.value = value]
<1>1. /\ IsSequence(stack) /\ n \in Nat \ {0} /\ DOMAIN stack = 1..n /\ Top = stack[n]
      /\ IsSequence(Below) /\ Len(Below) = n - 1 /\ DOMAIN Below = 1..n - 1
      /\ \A i \in 1..n - 1 : Below[i] = stack[i]
  BY FrontIs DEF LieInEachOther, Below, Top, Last
<1>2. n > 1 /\ Top.cursor = Top.end
  BY DEF CloseMessage
<1>3. /\ \A i \in 1..n : IsReader(stack[i])
      /\ stack[n].end = outer.cursor
  BY <1>1, <1>2 DEF LieInEachOther
<1>4. Last(Below) = outer
  <2>1. n - 1 \in 1..n - 1
    BY <1>1, <1>2
  <2> QED
    BY <1>1, <2>1 DEF Last
<1>5. stack' = [Below EXCEPT ![n - 1] = r]
  <2>1. stack' = [Below EXCEPT ![Len(Below)] =
                    [Last(Below) EXCEPT !.value = Adopt(Last(Below).message, Last(Below).value, Top)]]
    BY DEF CloseMessage
  <2> HIDE DEF n
  <2> QED
    BY <1>1, <1>4, <2>1
<1>6. r.message = outer.message /\ r.end = outer.end /\ r.cursor = outer.cursor /\ r.value = value
  <2>1. IsReader(outer)
    BY <1>1, <1>2, <1>3
  <2> HIDE DEF value, outer
  <2>2. LET p == [outer EXCEPT !.value = value] IN
        p.message = outer.message /\ p.end = outer.end /\ p.cursor = outer.cursor /\ p.value = value
    BY <2>1 DEF IsReader
  <2> QED
    BY <2>2
<1> HIDE DEF r
<1>7. /\ Len(stack') = n - 1 /\ stack'[n - 1] = r
      /\ \A i \in 1..n - 2 : stack'[i] = stack[i]
  <2> DEFINE B == Below
             m == n - 1
             S == ToSet(B) \cup {r}
  <2>1. B \in Seq(S) /\ m \in 1..Len(B) /\ Len(B) = m
    BY <1>1, <1>2, SeqMonotonic DEF IsSequence
  <2>2. /\ stack' = [B EXCEPT ![m] = r] /\ \A i \in 1..m : B[i] = stack[i]
    BY <1>1, <1>5
  <2>3. r \in S
    OBVIOUS
  <2> HIDE DEF B, m, S
  <2>4. /\ Len(stack') = m /\ \A j \in 1..m : stack'[j] = IF j = m THEN r ELSE B[j]
    BY <2>1, <2>2, <2>3, ExceptSeq
  <2>5. stack'[m] = r
    BY <2>1, <2>4
  <2>6. \A i \in 1..m - 1 : stack'[i] = stack[i]
    BY <2>1, <2>2, <2>4
  <2>7. m - 1 = n - 2
    BY <1>1 DEF m
  <2> QED
    BY <2>4, <2>5, <2>6, <2>7 DEF m
<1>8. /\ nodes' = IF stack[n].message = "node" THEN Append(nodes, Node(stack[n].value)) ELSE nodes
      /\ edges' = IF stack[n].message = "edge" THEN Append(edges, stack[n].value) ELSE edges
  BY <1>1 DEF CloseMessage
<1>9. stack[n].cursor = stack[n].end
  BY <1>1, <1>2
<1> QED
  BY <1>1, <1>2, <1>3, <1>6, <1>7, <1>8, <1>9, ClosedStands

\* So every step follows what the bytes say.
LEMMA ReadInvNext == DecodeInv /\ ReadInv /\ [DecodeNext]_decodeVars => ReadInv'
<1> SUFFICES ASSUME DecodeInv, ReadInv, [DecodeNext]_decodeVars, NEW R, IsReading(R)'
             PROVE  Follows(R)'
  BY DEF ReadInv
<1>1. response' = response
  BY DEF DecodeNext, Unframe, ReadMessages, RefuseFrame, SkipTrailer, TakeMessage, EndOfFrames,
         Malformed, ReadField, CloseMessage, Join, decodeVars
<1>2. body' = body /\ IsReading(R) /\ \A f : IsFault(f)' <=> IsFault(f)
  BY <1>1, AnswerStays
<1>3. Follows(R)
  BY <1>2 DEF ReadInv
<1>4. Len(body) \in Nat /\ offset \in 0..Len(body)
  BY DEF DecodeInv
<1> DEFINE frames == Fact(0, "frames", Len(body), offset, messages, << >>, << >>)
<1>5. /\ frames.depth = 0 /\ frames.message = "frames" /\ frames.end = Len(body) /\ frames.at = offset
      /\ frames.value = messages
  BY DEF Fact
<1>6. pc = "unframe" => frames \in R /\ FramesSay(R, frames) /\ nodes = << >> /\ edges = << >>
  BY <1>2, <1>3, <1>5 DEF Follows, IsReading
<1> DEFINE top == Fact(Len(stack), Top.message, Top.end, Top.cursor, Top.value, nodes, edges)
<1>7. /\ top.depth = Len(stack) /\ top.at = Top.cursor /\ top.end = Top.end
      /\ top.nodes = nodes /\ top.edges = edges
  BY DEF Fact
<1>8. pc = "read" => top \in R /\ Stands(R, stack, nodes, edges)
  BY <1>3 DEF Follows, Stands, Top, Last
<1> HIDE DEF frames, top
<1>9. pc = "read" => /\ stack # << >> /\ Len(stack) \in Nat \ {0}
                     /\ \E to : LieInEachOther(stack, to)
  <2>1. pc = "read" => stack # << >> /\ \E to : LieInEachOther(stack, to)
    BY DEF DecodeInv
  <2>2. ASSUME NEW to, LieInEachOther(stack, to), stack # << >> PROVE Len(stack) \in Nat \ {0}
    BY <2>2, FrontIs DEF LieInEachOther
  <2> QED
    BY <2>1, <2>2
<1>10. CASE UNCHANGED decodeVars
  BY <1>2, <1>3, <1>10 DEF decodeVars, Follows, IsEnd
<1>11. CASE RefuseFrame
  <2>1. frames \in R /\ offset # Len(body)
    BY <1>4, <1>6, <1>11 DEF RefuseFrame, Remaining
  <2>2. IsFault(frames)
    BY <1>5, <1>11, <2>1 DEF RefuseFrame, IsFault
  <2>3. pc' = "refused" /\ \E f \in R : IsFault(f)'
    BY <1>2, <1>11, <2>1, <2>2 DEF RefuseFrame
  <2> QED
    BY <2>3 DEF Follows
<1>12. CASE SkipTrailer
  <2>1. offset # Len(body) /\ FrameIsWhole(offset) /\ ~Compressed(offset) /\ Trailer(offset)
    BY <1>4, <1>12 DEF SkipTrailer, Remaining
  <2>2. Fact(0, "frames", Len(body), FrameEnd(offset), messages, << >>, << >>) \in R
    BY <1>5, <1>6, <1>12, <2>1 DEF FramesSay, SkipTrailer
  <2>3. /\ pc' = "unframe" /\ offset' = FrameEnd(offset) /\ messages' = messages
        /\ nodes' = << >> /\ edges' = << >>
    BY <1>6, <1>12 DEF SkipTrailer
  <2> QED
    BY <1>2, <2>2, <2>3 DEF Follows
<1>13. CASE TakeMessage
  <2> DEFINE taken == <<[from |-> offset + 5, to |-> FrameEnd(offset)]>>
  <2>1. offset # Len(body) /\ FrameIsWhole(offset) /\ ~Compressed(offset) /\ ~Trailer(offset) /\ messages = << >>
    BY <1>4, <1>13 DEF TakeMessage, Remaining
  <2>2. Fact(0, "frames", Len(body), FrameEnd(offset), taken, << >>, << >>) \in R
    BY <1>5, <1>6, <1>13, <2>1 DEF FramesSay, TakeMessage
  <2>3. /\ pc' = "unframe" /\ offset' = FrameEnd(offset) /\ messages' = taken
        /\ nodes' = << >> /\ edges' = << >>
    BY <1>6, <1>13 DEF TakeMessage
  <2> HIDE DEF taken
  <2> QED
    BY <1>2, <2>2, <2>3 DEF Follows
<1>14. CASE EndOfFrames
  <2>1. offset = Len(body) /\ pc = "unframe"
    BY <1>4, <1>14 DEF EndOfFrames, Remaining
  <2>2. CASE messages = << >>
    <3>1. IsFault(frames)
      BY <1>5, <2>1, <2>2 DEF IsFault
    <3>2. pc' = "refused" /\ \E f \in R : IsFault(f)'
      BY <1>2, <1>6, <1>14, <2>1, <2>2, <3>1 DEF EndOfFrames
    <3> QED
      BY <3>2 DEF Follows
  <2>3. CASE messages # << >>
    <3> DEFINE r == Reader("response", messages[1].from, messages[1].to)
    <3>1. Fact(1, "response", messages[1].to, messages[1].from, Blank("response"), << >>, << >>) \in R
      BY <1>5, <1>6, <2>1, <2>3 DEF FramesSay
    <3>2. /\ r.message = "response" /\ r.end = messages[1].to /\ r.cursor = messages[1].from
          /\ r.value = Blank("response")
      BY DEF Reader
    <3>3. pc' = "read" /\ stack' = <<r>> /\ nodes' = << >> /\ edges' = << >>
      BY <1>6, <1>14, <2>1, <2>3 DEF EndOfFrames
    <3> HIDE DEF r
    <3>4. Len(<<r>>) = 1 /\ <<r>>[1] = r
      OBVIOUS
    <3>5. Stands(R, stack', nodes', edges')
      BY <3>1, <3>2, <3>3, <3>4 DEF Stands
    <3> QED
      BY <3>3, <3>5 DEF Follows
  <2> QED
    BY <2>2, <2>3
<1>15. CASE Malformed
  <2>1. top \in R /\ top.depth # 0 /\ pc' = "refused"
    BY <1>7, <1>8, <1>9, <1>15 DEF Malformed
  <2>2. IsFault(top)
    BY <1>7, <1>15, <2>1 DEF Malformed, IsFault
  <2> QED
    BY <1>2, <2>1, <2>2 DEF Follows
<1>16. CASE ReadField
  <2>1. pc = "read" /\ pc' = "read"
    BY <1>16 DEF ReadField
  <2>2. Stands(R, stack', nodes', edges')
    BY <1>2, <1>8, <1>9, <1>16, <2>1, ReadFieldFollows
  <2> QED
    BY <2>1, <2>2 DEF Follows
<1>17. CASE CloseMessage
  <2>1. pc = "read" /\ pc' = "read"
    BY <1>17 DEF CloseMessage
  <2>2. Stands(R, stack', nodes', edges')
    BY <1>8, <1>9, <1>17, <2>1, CloseMessageFollows
  <2> QED
    BY <2>1, <2>2 DEF Follows
<1>18. CASE Join
  <2>1. top \in R /\ IsEnd(top) /\ pc' = "done" /\ nodes' = nodes /\ edges' = edges
    BY <1>7, <1>8, <1>18 DEF Join, IsEnd
  <2>2. \E g \in R : IsEnd(g) /\ g.nodes = nodes' /\ g.edges = edges'
    BY <1>7, <2>1
  <2> QED
    BY <2>1, <2>2 DEF Follows, IsEnd
<1> QED
  BY <1>10, <1>11, <1>12, <1>13, <1>14, <1>15, <1>16, <1>17, <1>18 DEF DecodeNext, Unframe, ReadMessages

\* It holds before anything was read.
LEMMA ReadInvInit == DecodeInit => ReadInv
<1> SUFFICES ASSUME DecodeInit, NEW R, IsReading(R) PROVE Follows(R)
  BY DEF ReadInv
<1>1. Fact(0, "frames", Len(body), 0, << >>, << >>, << >>) \in R
  BY DEF IsReading
<1> QED
  BY <1>1 DEF DecodeInit, Follows

\* Decoding finds what the bytes say, in whatever messages they are nested: nodes and edges
\* that are turned to rows are those of a response read to its end, and an answer is refused
\* only for a fault in its bytes (gcloud_topology.cpp:327, gcloud_client.cpp:397).
THEOREM DecodesWhatTheBytesSay ==
  DecodeSpec => [](\A R : IsReading(R) =>
                     /\ pc = "done" => \E g \in R : IsEnd(g) /\ g.nodes = nodes /\ g.edges = edges
                     /\ pc = "refused" => \E f \in R : IsFault(f))
<1> DEFINE Told == \A R : IsReading(R) =>
                     /\ pc = "done" => \E g \in R : IsEnd(g) /\ g.nodes = nodes /\ g.edges = edges
                     /\ pc = "refused" => \E f \in R : IsFault(f)
<1>1. ReadInv => Told
  BY DEF ReadInv, Follows
<1> HIDE DEF Told
<1>2. DecodeSpec => []Told
  BY <1>1, DecodeInvInit, DecodeInvNext, ReadInvInit, ReadInvNext, PTL DEF DecodeSpec
<1> QED
  BY <1>2 DEF Told

\* The bytes of a whole answer being those of its graph, the rows tell the graph.
THEOREM WholeAnswersAreRead ==
  DecodeSpec => []((response.whole => Encodes(response.graph)) => DependenciesTellTheGraph)
<1>1. DecodeInv /\ JoinInv /\ ReadInv =>
        ((response.whole => Encodes(response.graph)) => DependenciesTellTheGraph)
  <2> SUFFICES ASSUME DecodeInv, JoinInv, ReadInv, response.whole, Encodes(response.graph)
               PROVE  /\ pc # "refused"
                      /\ pc = "done" => GraphIsRead(response.graph) /\ RowsTell(response.graph)
    BY DEF DependenciesTellTheGraph
  <2> DEFINE graph == response.graph
  <2>1. IsGraph(graph)
    BY GraphsAssumption DEF DecodeInv
  <2>2. PICK R : /\ IsReading(R)
                 /\ \A f \in R : ~IsFault(f) /\ (IsEnd(f) => f.nodes = NodesOf(graph) /\ f.edges = graph.edges)
    BY DEF Encodes
  <2>3. Follows(R)
    BY <2>2 DEF ReadInv
  <2>4. pc # "refused"
    BY <2>2, <2>3 DEF Follows
  <2>5. ASSUME pc = "done" PROVE GraphIsRead(graph)
    <3>1. nodes = NodesOf(graph) /\ edges = graph.edges
      BY <2>2, <2>3, <2>5 DEF Follows
    <3> QED
      BY <3>1 DEF GraphIsRead
  <2> QED
    BY <2>1, <2>4, <2>5, JoinedTell
<1>2. DecodeInit => JoinInv
  BY DEF DecodeInit, JoinInv
<1> QED
  BY <1>1, <1>2, JoinInvNext, DecodeInvInit, DecodeInvNext, ReadInvInit, ReadInvNext, PTL DEF DecodeSpec

-----------------------------------------------------------------------------
(* How the open readers move                                               *)

\* What a field that is read does to the open readers,
LEMMA ReadFieldMoves ==
  ASSUME NEW to, LieInEachOther(stack, to), stack # << >>, ReadField
  PROVE  \E field \in Fields(Top.cursor, Top.end) :
           /\ stack'[Len(stack)].message = Top.message /\ stack'[Len(stack)].end = Top.end
           /\ stack'[Len(stack)].cursor = field.to
           /\ \A i \in 1..Len(stack) - 1 : stack'[i] = stack[i]
           /\ \/ Len(stack') = Len(stack) /\ Opened(Top.message, field) = {}
              \/ /\ Len(stack') = Len(stack) + 1
                 /\ stack'[Len(stack) + 1].cursor = field.from /\ stack'[Len(stack) + 1].end = field.to
                 /\ \E nested \in Opened(Top.message, field) : stack'[Len(stack) + 1].message = nested[3]
<1> DEFINE n == Len(stack)
<1>1. /\ IsSequence(stack) /\ n \in Nat \ {0} /\ DOMAIN stack = 1..n /\ Top = stack[n] /\ IsReader(Top)
      /\ IsSequence(Below) /\ Len(Below) = n - 1 /\ \A i \in 1..n - 1 : Below[i] = stack[i]
  BY FrontIs DEF LieInEachOther, Top, Last, Below
<1>2. PICK field \in Fields(Top.cursor, Top.end) :
        LET passed == [Top EXCEPT !.cursor = field.to, !.value = Absorb(Top.message, Top.value, field)]
            inner  == Opened(Top.message, field)
        IN  stack' = IF inner = {} THEN Append(Below, passed)
                     ELSE Append(Append(Below, passed),
                                 Reader((CHOOSE nested \in inner : TRUE)[3], field.from, field.to))
  BY DEF ReadField
<1> DEFINE inner  == Opened(Top.message, field)
           value  == Absorb(Top.message, Top.value, field)
           passed == [Top EXCEPT !.cursor = field.to, !.value = value]
           child  == (CHOOSE nested \in inner : TRUE)[3]
           opened == Reader(child, field.from, field.to)
           t      == Append(Below, passed)
<1>3. passed.cursor = field.to /\ passed.end = Top.end /\ passed.message = Top.message
  <2> HIDE DEF value
  <2> DEFINE top == Top
  <2>1. IsReader(top)
    BY <1>1
  <2> HIDE DEF top
  <2>2. LET p == [top EXCEPT !.cursor = field.to, !.value = value] IN
        p.cursor = field.to /\ p.end = top.end /\ p.message = top.message
    BY <2>1 DEF IsReader
  <2> QED
    BY <2>2 DEF top
<1>4. /\ opened.cursor = field.from /\ opened.end = field.to
      /\ inner # {} => \E nested \in inner : opened.message = nested[3]
  <2>1. opened.cursor = field.from /\ opened.end = field.to /\ opened.message = child
    BY DEF Reader
  <2>2. inner # {} => \E nested \in inner : child = nested[3]
    OBVIOUS
  <2> HIDE DEF opened, inner, child
  <2> QED
    BY <2>1, <2>2
<1>5. stack' = IF inner = {} THEN t ELSE Append(t, opened)
  BY <1>2
<1> HIDE DEF passed, opened, n
<1> HIDE DEF inner, child
<1>6. /\ IsSequence(t) /\ Len(t) = n /\ t[n] = passed
      /\ \A i \in 1..n - 1 : t[i] = stack[i]
  <2>1. /\ IsSequence(t) /\ Len(t) = (n - 1) + 1 /\ t[(n - 1) + 1] = passed
        /\ \A i \in 1..n - 1 : t[i] = Below[i]
    BY <1>1, Appended
  <2>2. (n - 1) + 1 = n
    BY <1>1
  <2> QED
    BY <1>1, <2>1, <2>2
<1> HIDE DEF t
<1>7. CASE inner = {}
  BY <1>3, <1>5, <1>6, <1>7 DEF n, inner
<1>8. CASE inner # {}
  <2>1. /\ Len(Append(t, opened)) = n + 1 /\ Append(t, opened)[n + 1] = opened
        /\ \A i \in 1..n : Append(t, opened)[i] = t[i]
    BY <1>6, Appended
  <2>2. n \in 1..n /\ \A i \in 1..n - 1 : i \in 1..n
    BY <1>1
  <2>3. /\ Len(stack') = n + 1 /\ stack'[n + 1] = opened /\ stack'[n] = passed
        /\ \A i \in 1..n - 1 : stack'[i] = stack[i]
    BY <1>5, <1>6, <1>8, <2>1, <2>2
  <2> QED
    BY <1>3, <1>4, <1>8, <2>3 DEF n, inner
<1> QED
  BY <1>7, <1>8

\* and what the end of a message does.
LEMMA CloseMessageMoves ==
  ASSUME NEW to, LieInEachOther(stack, to), stack # << >>, CloseMessage
  PROVE  /\ Len(stack) > 1 /\ Len(stack') = Len(stack) - 1
         /\ \A i \in 1..Len(stack) - 1 :
              /\ stack'[i].message = stack[i].message
              /\ stack'[i].cursor = stack[i].cursor /\ stack'[i].end = stack[i].end
         /\ stack[Len(stack) - 1].cursor = Top.cursor
<1> DEFINE n     == Len(stack)
           outer == stack[n - 1]
           value == Adopt(Last(Below).message, Last(Below).value, Top)
           r     == [outer EXCEPT !.value = value]
<1>1. /\ IsSequence(stack) /\ n \in Nat \ {0} /\ DOMAIN stack = 1..n /\ Top = stack[n]
      /\ IsSequence(Below) /\ Len(Below) = n - 1 /\ DOMAIN Below = 1..n - 1
      /\ \A i \in 1..n - 1 : Below[i] = stack[i]
  BY FrontIs DEF LieInEachOther, Below, Top, Last
<1>2. n > 1 /\ Top.cursor = Top.end
  BY DEF CloseMessage
<1>3. IsReader(outer) /\ Top.end = outer.cursor
  BY <1>1, <1>2 DEF LieInEachOther
<1>4. Last(Below) = outer
  <2>1. n - 1 \in 1..n - 1
    BY <1>1, <1>2
  <2> QED
    BY <1>1, <2>1 DEF Last
<1>5. stack' = [Below EXCEPT ![n - 1] = r]
  <2>1. stack' = [Below EXCEPT ![Len(Below)] = [Last(Below) EXCEPT !.value = value]]
    BY DEF CloseMessage
  <2> HIDE DEF n, value
  <2> QED
    BY <1>1, <1>4, <2>1
<1>6. r.end = outer.end /\ r.cursor = outer.cursor /\ r.message = outer.message
  <2> HIDE DEF value, outer
  <2>1. LET p == [outer EXCEPT !.value = value] IN
        p.end = outer.end /\ p.cursor = outer.cursor /\ p.message = outer.message
    BY <1>3 DEF IsReader
  <2> QED
    BY <2>1
<1> HIDE DEF r
<1>7. /\ Len(stack') = n - 1
      /\ \A i \in 1..n - 1 : stack'[i] = IF i = n - 1 THEN r ELSE stack[i]
  <2> DEFINE B == Below
             m == n - 1
             S == ToSet(B) \cup {r}
  <2>1. B \in Seq(S) /\ m \in 1..Len(B) /\ Len(B) = m
    BY <1>1, <1>2, SeqMonotonic DEF IsSequence
  <2>2. /\ stack' = [B EXCEPT ![m] = r] /\ \A i \in 1..m : B[i] = stack[i]
    BY <1>1, <1>5
  <2>3. r \in S
    OBVIOUS
  <2> HIDE DEF B, m, S
  <2>4. /\ Len(stack') = m /\ \A j \in 1..m : stack'[j] = IF j = m THEN r ELSE B[j]
    BY <2>1, <2>2, <2>3, ExceptSeq
  <2> QED
    BY <2>2, <2>4 DEF m
<1> QED
  BY <1>2, <1>3, <1>6, <1>7

-----------------------------------------------------------------------------
(* Where an answer breaks off                                              *)

\* The bytes of an answer are numbers, and there are finitely many.
LEMMA BodyIs ==
  ASSUME response \in Responses
  PROVE  body \in Seq(Byte) /\ Len(body) \in Nat /\ \A i \in 1..Len(body) : body[i] \in 0..255
<1>1. body \in Seq(Byte)
  BY ResponsesAssumption DEF body
<1> QED
  BY <1>1, LenProperties, ElementOfSeq DEF Byte

\* No two varints start at one position.
LEMMA VarintIsOne ==
  ASSUME NEW b, Len(b) \in Nat, \A k \in 1..Len(b) : b[k] \in 0..255, NEW i \in Nat,
         NEW j \in Nat, IsVarint(b, i, j), NEW k \in Nat, IsVarint(b, i, k)
  PROVE  j = k
<1>1. ASSUME NEW m \in Nat, NEW n \in Nat, m < n, IsVarint(b, i, m), IsVarint(b, i, n)
      PROVE  FALSE
  <2>1. m \in i+1..n-1 /\ m \in 1..Len(b)
    BY <1>1, WidthsAssumption DEF IsVarint
  <2> DEFINE byte == b[m]
  <2>2. byte >= 128 /\ byte < 128 /\ byte \in 0..255
    BY <1>1, <2>1 DEF IsVarint
  <2> HIDE DEF byte
  <2> QED
    BY <2>2
<1> QED
  BY <1>1

\* A varint that is read is one.
LEMMA VarintsAre ==
  ASSUME response \in Responses, NEW at \in Nat, NEW end \in 0..Len(body), NEW varint \in Varints(at, end)
  PROVE  /\ varint.next \in Nat /\ at < varint.next /\ varint.next <= end
         /\ IsVarint(body, at, varint.next)
         /\ varint.value = Integer(body, at, varint.next)
<1>1. PICK n \in VarintLengths(at, end) : varint = [value |-> VarintValue(SubSeq(body, at + 1, at + n)), next |-> at + n]
  BY DEF Varints
<1>2. Len(body) \in Nat
  BY BodyIs
<1>3. /\ n \in Nat \ {0} /\ n <= VarintBytes /\ at + n <= end
      /\ body[at + n] < 128 /\ \A m \in 1..n-1 : body[at + m] >= 128
  BY WidthsAssumption DEF VarintLengths
<1>4. \A k \in at+1..(at+n)-1 : body[k] >= 128
  <2> SUFFICES ASSUME NEW k \in at+1..(at+n)-1 PROVE body[k] >= 128
    OBVIOUS
  <2>1. k - at \in 1..n-1 /\ at + (k - at) = k
    BY <1>3
  <2> QED
    BY <1>3, <2>1
<1>5. varint.next = at + n /\ varint.value = Integer(body, at, at + n)
  BY <1>1 DEF Integer
<1>6. IsVarint(body, at, at + n)
  BY <1>2, <1>3, <1>4, WidthsAssumption DEF IsVarint
<1> QED
  BY <1>3, <1>5, <1>6

\* What a field that is read consists of.
LEMMA FieldParts ==
  ASSUME NEW at \in Nat, NEW end \in Nat, NEW field \in Fields(at, end)
  PROVE  \E tag \in Varints(at, end) :
           /\ FieldNumber(tag) # 0 /\ field.number = FieldNumber(tag) /\ field.wire_type = WireType(tag)
           /\ \/ WireType(tag) = 0 /\ \E integer \in Varints(tag.next, end) :
                                        field.from = integer.next /\ field.to = integer.next
              \/ WireType(tag) = 1 /\ field.to = tag.next + 8
              \/ WireType(tag) = 5 /\ field.to = tag.next + 4
              \/ WireType(tag) = 2 /\ \E size \in Varints(tag.next, end) :
                                        /\ field.from = size.next /\ size.value \in Nat
                                        /\ field.to = size.next + size.value
<1> DEFINE ofInteger(tag) ==
             {[number |-> FieldNumber(tag), wire_type |-> 0, from |-> integer.next, to |-> integer.next,
               integer |-> integer.value] : integer \in Varints(tag.next, end)}
           ofSize(tag) == UNION {Take(tag, size.next, size.value, end) : size \in Varints(tag.next, end)}
           fields(tag) ==
             CASE FieldNumber(tag) = 0 -> {}
               [] FieldNumber(tag) # 0 /\ WireType(tag) = 0 -> ofInteger(tag)
               [] FieldNumber(tag) # 0 /\ WireType(tag) = 1 -> Take(tag, tag.next, 8, end)
               [] FieldNumber(tag) # 0 /\ WireType(tag) = 2 -> ofSize(tag)
               [] FieldNumber(tag) # 0 /\ WireType(tag) = 5 -> Take(tag, tag.next, 4, end)
               [] OTHER -> {}
<1>1. PICK tag \in Varints(at, end) : field \in fields(tag)
  BY DEF Fields
<1> HIDE DEF ofInteger, ofSize
<1>2. /\ FieldNumber(tag) # 0
      /\ \/ WireType(tag) = 0 /\ field \in ofInteger(tag)
         \/ WireType(tag) = 1 /\ field \in Take(tag, tag.next, 8, end)
         \/ WireType(tag) = 2 /\ field \in ofSize(tag)
         \/ WireType(tag) = 5 /\ field \in Take(tag, tag.next, 4, end)
  BY <1>1
<1>3. ASSUME NEW from, NEW count, field \in Take(tag, from, count, end)
      PROVE  /\ field.number = FieldNumber(tag) /\ field.wire_type = WireType(tag)
             /\ field.from = from /\ field.to = from + count /\ count \in 0..end - from
  BY <1>3 DEF Take
<1>4. CASE WireType(tag) = 0 /\ field \in ofInteger(tag)
  <2>1. PICK integer \in Varints(tag.next, end) :
          field = [number |-> FieldNumber(tag), wire_type |-> 0, from |-> integer.next, to |-> integer.next,
                   integer |-> integer.value]
    BY <1>4 DEF ofInteger
  <2> QED
    BY <1>2, <1>4, <2>1
<1>5. CASE WireType(tag) = 1 /\ field \in Take(tag, tag.next, 8, end)
  BY <1>2, <1>3, <1>5
<1>6. CASE WireType(tag) = 5 /\ field \in Take(tag, tag.next, 4, end)
  BY <1>2, <1>3, <1>6
<1>7. CASE WireType(tag) = 2 /\ field \in ofSize(tag)
  <2>1. PICK size \in Varints(tag.next, end) : field \in Take(tag, size.next, size.value, end)
    BY <1>7 DEF ofSize
  <2>2. /\ field.number = FieldNumber(tag) /\ field.wire_type = WireType(tag)
        /\ field.from = size.next /\ field.to = size.next + size.value /\ size.value \in Nat
    BY <1>3, <2>1
  <2> QED
    BY <1>2, <1>7, <2>1, <2>2
<1> QED
  BY <1>2, <1>4, <1>5, <1>6, <1>7

\* A field that is read is one, and holds the message that is there.
LEMMA FieldsAreFields ==
  ASSUME response \in Responses, NEW at \in Nat, NEW end \in 0..Len(body), NEW field \in Fields(at, end)
  PROVE  /\ IsField(body, at, field.to)
         /\ \A number, from, to \in Nat :
              HoldsMessage(body, at, number, from, to) =>
                field.number = number /\ field.wire_type = 2 /\ field.from = from /\ field.to = to
<1>1. /\ Len(body) \in Nat /\ end \in Nat /\ \A k \in 1..Len(body) : body[k] \in 0..255
  BY BodyIs
<1>2. /\ field.to \in Nat /\ field.to <= end
  BY <1>1, FieldsLie
<1>3. PICK tag \in Varints(at, end) :
        /\ FieldNumber(tag) # 0 /\ field.number = FieldNumber(tag) /\ field.wire_type = WireType(tag)
        /\ \/ WireType(tag) = 0 /\ \E integer \in Varints(tag.next, end) :
                                     field.from = integer.next /\ field.to = integer.next
           \/ WireType(tag) = 1 /\ field.to = tag.next + 8
           \/ WireType(tag) = 5 /\ field.to = tag.next + 4
           \/ WireType(tag) = 2 /\ \E size \in Varints(tag.next, end) :
                                     /\ field.from = size.next /\ size.value \in Nat
                                     /\ field.to = size.next + size.value
  BY <1>1, FieldParts
<1> DEFINE t == tag.next
<1>4. /\ t \in Nat /\ at < t /\ t <= end /\ IsVarint(body, at, t) /\ tag.value = Integer(body, at, t)
  BY VarintsAre
<1>5. FieldNumber(tag) = TagNumber(body, at, t) /\ WireType(tag) = Integer(body, at, t) % 8
  BY <1>4 DEF FieldNumber, WireType, TagNumber
<1>6. IsTag(body, at, t, WireType(tag))
  BY <1>3, <1>4, <1>5 DEF IsTag
<1>7. ASSUME NEW integer \in Varints(t, end)
      PROVE  /\ integer.next \in Nat /\ t < integer.next /\ integer.next <= end
             /\ IsVarint(body, t, integer.next) /\ integer.value = Integer(body, t, integer.next)
  BY <1>4, <1>7, VarintsAre
<1> HIDE DEF t
<1>8. IsField(body, at, field.to)
  <2>1. CASE WireType(tag) = 0 /\ \E integer \in Varints(t, end) : field.to = integer.next
    <3>1. PICK integer \in Varints(t, end) : field.to = integer.next
      BY <2>1
    <3>2. t \in at+1..field.to /\ IsVarint(body, t, field.to)
      BY <1>2, <1>4, <1>7, <3>1
    <3> QED
      BY <1>6, <2>1, <3>2 DEF IsField
  <2>2. CASE WireType(tag) = 1 /\ field.to = t + 8
    <3>1. t \in at+1..field.to
      BY <1>4, <2>2
    <3> QED
      BY <1>6, <2>2, <3>1 DEF IsField
  <2>3. CASE WireType(tag) = 5 /\ field.to = t + 4
    <3>1. t \in at+1..field.to
      BY <1>4, <2>3
    <3> QED
      BY <1>6, <2>3, <3>1 DEF IsField
  <2>4. CASE WireType(tag) = 2 /\ \E size \in Varints(t, end) : size.value \in Nat /\ field.to = size.next + size.value
    <3>1. PICK size \in Varints(t, end) : size.value \in Nat /\ field.to = size.next + size.value
      BY <2>4
    <3> DEFINE s == size.next
    <3>2. s \in Nat /\ t < s /\ IsVarint(body, t, s) /\ size.value = Integer(body, t, s)
      BY <1>7
    <3>3. field.to = s + size.value
      BY <3>1
    <3> HIDE DEF s
    <3>4. Integer(body, t, s) = field.to - s /\ s \in t+1..field.to /\ t \in at+1..field.to
      BY <1>4, <3>1, <3>2, <3>3
    <3> QED
      BY <1>6, <2>4, <3>2, <3>4 DEF IsField
  <2> QED
    BY <1>3, <2>1, <2>2, <2>3, <2>4 DEF t
<1>9. ASSUME NEW number, NEW from \in Nat, NEW to \in Nat, HoldsMessage(body, at, number, from, to)
      PROVE  field.number = number /\ field.wire_type = 2 /\ field.from = from /\ field.to = to
  <2>1. PICK u \in at+1..from : /\ IsTag(body, at, u, 2) /\ TagNumber(body, at, u) = number
                                /\ IsVarint(body, u, from) /\ Integer(body, u, from) = to - from
    BY <1>9 DEF HoldsMessage
  <2>2. u \in Nat /\ IsVarint(body, at, u)
    BY <2>1 DEF IsTag
  <2>3. u = t
    BY <1>1, <1>4, <2>2, VarintIsOne
  <2>4. WireType(tag) = 2 /\ field.number = number
    BY <1>3, <1>5, <2>1, <2>3 DEF IsTag
  <2>5. PICK size \in Varints(t, end) : field.from = size.next /\ size.value \in Nat /\ field.to = size.next + size.value
    BY <1>3, <2>4 DEF t
  <2> DEFINE s == size.next
  <2>6. s \in Nat /\ IsVarint(body, t, s) /\ size.value = Integer(body, t, s)
    BY <1>7
  <2>7. s = from
    BY <1>1, <1>4, <2>1, <2>3, <2>6, VarintIsOne
  <2>8. size.value = to - from
    BY <2>1, <2>3, <2>6, <2>7
  <2>9. field.to = to
    BY <2>5, <2>7, <2>8
  <2> QED
    BY <1>3, <2>4, <2>5, <2>7, <2>9
<1> QED
  BY <1>8, <1>9

\* No two fields start at one position.
LEMMA FieldIsOne ==
  ASSUME NEW b, Len(b) \in Nat, \A k \in 1..Len(b) : b[k] \in 0..255, NEW i \in Nat,
         NEW j \in Nat, IsField(b, i, j), NEW k \in Nat, IsField(b, i, k)
  PROVE  j = k
<1>1. PICK t \in i+1..j :
        \/ IsTag(b, i, t, 0) /\ IsVarint(b, t, j)
        \/ IsTag(b, i, t, 1) /\ j = t + 8
        \/ IsTag(b, i, t, 5) /\ j = t + 4
        \/ IsTag(b, i, t, 2) /\ \E s \in t+1..j : IsVarint(b, t, s) /\ Integer(b, t, s) = j - s
  BY DEF IsField
<1>2. PICK u \in i+1..k :
        \/ IsTag(b, i, u, 0) /\ IsVarint(b, u, k)
        \/ IsTag(b, i, u, 1) /\ k = u + 8
        \/ IsTag(b, i, u, 5) /\ k = u + 4
        \/ IsTag(b, i, u, 2) /\ \E s \in u+1..k : IsVarint(b, u, s) /\ Integer(b, u, s) = k - s
  BY DEF IsField
<1>3. t \in Nat /\ u \in Nat /\ IsVarint(b, i, t) /\ IsVarint(b, i, u)
  BY <1>1, <1>2 DEF IsTag
<1>4. t = u
  BY <1>3, VarintIsOne
<1> DEFINE wire == Integer(b, i, t) % 8
<1>5. \A w : IsTag(b, i, t, w) => wire = w
  BY DEF IsTag
<1> HIDE DEF wire
<1>6. CASE wire = 0
  <2>1. IsVarint(b, t, j) /\ IsVarint(b, t, k)
    BY <1>1, <1>2, <1>4, <1>5, <1>6
  <2> QED
    BY <1>3, <2>1, VarintIsOne
<1>7. CASE wire \in {1, 5}
  BY <1>1, <1>2, <1>3, <1>4, <1>5, <1>7
<1>8. CASE wire = 2
  <2>1. PICK s \in t+1..j : IsVarint(b, t, s) /\ Integer(b, t, s) = j - s
    BY <1>1, <1>5, <1>8
  <2>2. PICK v \in t+1..k : IsVarint(b, t, v) /\ Integer(b, t, v) = k - v
    BY <1>2, <1>4, <1>5, <1>8
  <2>3. s = v
    BY <1>3, <2>1, <2>2, VarintIsOne
  <2> QED
    BY <1>3, <2>1, <2>2, <2>3
<1> QED
  BY <1>1, <1>5, <1>6, <1>7, <1>8

\* A frame that is read is one, and no two start at one position.
LEMMA FramesAre ==
  ASSUME response \in Responses, NEW at \in 0..Len(body), FrameIsWhole(at), ~Compressed(at)
  PROVE  /\ IsFrame(body, at, FrameEnd(at)) /\ FrameEnd(at) \in Nat
         /\ Trailer(at) <=> IsTrailer(body, at)
         /\ \A j \in Nat : IsFrame(body, at, j) => j = FrameEnd(at)
<1>1. /\ Len(body) \in Nat /\ FrameEnd(at) \in 0..Len(body) /\ at + 5 <= FrameEnd(at)
  BY FrameIs
<1>2. \A k \in 1..Len(body) : body[k] \in 0..255
  BY BodyIs
<1> DEFINE f == body[at + 1]
           a == body[at + 2]
           b == body[at + 3]
           c == body[at + 4]
           d == body[at + 5]
<1>3. f \in 0..255 /\ a \in 0..255 /\ b \in 0..255 /\ c \in 0..255 /\ d \in 0..255
  BY <1>1, <1>2
<1>4. FrameEnd(at) = at + 5 + (((a * 256 + b) * 256 + c) * 256 + d)
  BY DEF FrameEnd, FrameLength
<1>5. f % 2 # 1
  BY DEF Compressed, FrameFlags
<1>6. \A j : IsFrame(body, at, j) <=>
        /\ at + 5 <= j /\ j <= Len(body) /\ f % 2 = 0
        /\ j - (at + 5) = 16777216 * a + 65536 * b + 256 * c + d
  BY DEF IsFrame
<1>7. Trailer(at) <=> IsTrailer(body, at)
  BY DEF Trailer, FrameFlags, IsTrailer
<1> DEFINE end  == FrameEnd(at)
           size == Len(body)
<1> HIDE DEF f, a, b, c, d, end, size
<1>8. end = at + 5 + (16777216 * a + 65536 * b + 256 * c + d)
  BY <1>3, <1>4 DEF end
<1>9. f % 2 = 0
  BY <1>3, <1>5
<1>10. end - (at + 5) = 16777216 * a + 65536 * b + 256 * c + d
  BY <1>1, <1>3, <1>8
<1>11. IsFrame(body, at, end)
  BY <1>1, <1>6, <1>9, <1>10 DEF end
<1>12. ASSUME NEW j \in Nat, IsFrame(body, at, j) PROVE j = end
  <2>1. j - (at + 5) = 16777216 * a + 65536 * b + 256 * c + d
    BY <1>6, <1>12
  <2> QED
    BY <1>1, <1>3, <1>10, <2>1 DEF end
<1> QED
  BY <1>1, <1>7, <1>11, <1>12 DEF end

\* The frames, and the messages in one another, that lead to where an answer breaks off.
FramesOf == response.frames
LevelsOf == response.levels

\* Where an answer breaks off, said of its parts.
LEMMA BreachIs ==
  ASSUME response \in Responses, ~response.whole
  PROVE  /\ Len(FramesOf) \in Nat \ {0} /\ FramesOf[1] = 0
         /\ \A k \in 1..Len(FramesOf) : FramesOf[k] \in 0..Len(body)
         /\ \A k \in 1..Len(FramesOf) - 1 : IsFrame(body, FramesOf[k], FramesOf[k + 1])
         /\ Len(LevelsOf) \in Nat
         /\ LevelsOf = << >> => FramesBreakOff(body, FramesOf)
         /\ LevelsOf # << >> =>
              /\ Len(LevelsOf) # 0
              /\ FrameHolds(body, FramesOf, LevelsOf[1])
              /\ \A d \in 1..Len(LevelsOf) :
                   /\ LevelsOf[d].end \in 0..Len(body) /\ Len(LevelsOf[d].starts) \in Nat \ {0}
                   /\ \A k \in 1..Len(LevelsOf[d].starts) : LevelsOf[d].starts[k] \in 0..LevelsOf[d].end - 1
                   /\ \A k \in 1..Len(LevelsOf[d].starts) - 1 :
                        IsField(body, LevelsOf[d].starts[k], LevelsOf[d].starts[k + 1])
              /\ \A d \in 1..Len(LevelsOf) - 1 : FieldHolds(body, LevelsOf[d], LevelsOf[d + 1])
              /\ FieldsBreakOff(body, LevelsOf[Len(LevelsOf)])
<1>1. LevelsOf \in Seq(ToSet(LevelsOf)) /\ BreaksOff(body, FramesOf, LevelsOf)
  BY BreachesAssumption DEF FramesOf, LevelsOf, body
<1>2. Len(LevelsOf) \in Nat /\ (LevelsOf # << >> => Len(LevelsOf) # 0)
  BY <1>1, EmptySeq, SequenceIs
<1>3. AreFrames(body, FramesOf)
  BY <1>1 DEF BreaksOff
<1>4. /\ Len(FramesOf) \in Nat \ {0} /\ FramesOf[1] = 0
      /\ \A k \in 1..Len(FramesOf) : FramesOf[k] \in 0..Len(body)
      /\ \A k \in 1..Len(FramesOf) - 1 : IsFrame(body, FramesOf[k], FramesOf[k + 1])
  <2>1. FramesOf \in Seq(0..Len(body)) /\ Len(FramesOf) > 0
    BY <1>3 DEF AreFrames
  <2>2. Len(FramesOf) \in Nat \ {0} /\ \A k \in 1..Len(FramesOf) : FramesOf[k] \in 0..Len(body)
    <3> DEFINE P == 0..Len(body)
    <3> HIDE DEF P
    <3>1. FramesOf \in Seq(P)
      BY <2>1 DEF P
    <3>2. Len(FramesOf) \in Nat /\ \A k \in 1..Len(FramesOf) : FramesOf[k] \in P
      BY <3>1, LenProperties, ElementOfSeq
    <3> QED
      BY <2>1, <3>2 DEF P
  <2> QED
    BY <1>3, <2>2 DEF AreFrames
<1>5. ASSUME NEW level, AreFields(body, level)
      PROVE  /\ level.end \in 0..Len(body) /\ Len(level.starts) \in Nat \ {0}
             /\ \A k \in 1..Len(level.starts) : level.starts[k] \in 0..level.end - 1
             /\ \A k \in 1..Len(level.starts) - 1 : IsField(body, level.starts[k], level.starts[k + 1])
  <2>1. level.starts \in Seq(0..level.end - 1) /\ Len(level.starts) > 0
    BY <1>5 DEF AreFields
  <2>2. Len(level.starts) \in Nat \ {0} /\ \A k \in 1..Len(level.starts) : level.starts[k] \in 0..level.end - 1
    <3> DEFINE P == 0..level.end - 1
    <3> HIDE DEF P
    <3>1. level.starts \in Seq(P)
      BY <2>1 DEF P
    <3>2. Len(level.starts) \in Nat /\ \A k \in 1..Len(level.starts) : level.starts[k] \in P
      BY <3>1, LenProperties, ElementOfSeq
    <3> QED
      BY <2>1, <3>2 DEF P
  <2> QED
    BY <1>5, <2>2 DEF AreFields
<1>6. LevelsOf = << >> => FramesBreakOff(body, FramesOf)
  BY <1>1 DEF BreaksOff
<1>7. LevelsOf # << >> =>
        /\ FrameHolds(body, FramesOf, LevelsOf[1])
        /\ \A d \in 1..Len(LevelsOf) : AreFields(body, LevelsOf[d])
        /\ \A d \in 1..Len(LevelsOf) - 1 : FieldHolds(body, LevelsOf[d], LevelsOf[d + 1])
        /\ FieldsBreakOff(body, LevelsOf[Len(LevelsOf)])
  BY <1>1 DEF BreaksOff
<1> QED
  BY <1>2, <1>4, <1>5, <1>6, <1>7

\* The reader is at one of the fields that lead to where the answer breaks off.
OnWay(reader, level) ==
  /\ reader.message = level.message /\ reader.end = level.end
  /\ \E k \in 1..Len(level.starts) : reader.cursor = level.starts[k]

\* The frames are at one of those that lead there, and the message is among them or not;
FramesLead ==
  \E k \in 1..Len(FramesOf) :
    /\ offset = FramesOf[k]
    /\ messages = << >> <=> \A l \in 1..k - 1 : IsTrailer(body, FramesOf[l])

\* or the message has been taken;
MessageLeads ==
  LevelsOf # << >> /\ messages = <<[from |-> LevelsOf[1].starts[1], to |-> LevelsOf[1].end]>>

\* and one of the open readers is on the way, whatever those above it do.
ReadersLead ==
  LevelsOf # << >> /\ \E d \in 1..Len(stack) : d <= Len(LevelsOf) /\ OnWay(stack[d], LevelsOf[d])

BreachInv ==
  ~response.whole => /\ pc = "unframe" => FramesLead \/ MessageLeads
                     /\ pc = "read" => ReadersLead
                     /\ pc # "done"

\* A frame on the way is followed by the next one, or is that which holds the message.
LEMMA FrameLeadsOn ==
  ASSUME DecodeInv, ~response.whole, FrameIsWhole(offset), ~Compressed(offset),
         NEW k \in 1..Len(FramesOf), offset = FramesOf[k],
         messages = << >> <=> \A l \in 1..k - 1 : IsTrailer(body, FramesOf[l]),
         Trailer(offset) \/ messages = << >>
  PROVE  \/ k < Len(FramesOf) /\ FrameEnd(offset) = FramesOf[k + 1]
         \/ /\ LevelsOf # << >> /\ ~Trailer(offset)
            /\ LevelsOf[1].starts[1] = offset + 5 /\ LevelsOf[1].end = FrameEnd(offset)
<1> DEFINE n == Len(FramesOf)
           i == FramesOf[n]
           end == FrameEnd(offset)
<1>1. response \in Responses /\ Len(body) \in Nat /\ offset \in 0..Len(body)
  BY DEF DecodeInv
<1>2. /\ n \in Nat \ {0} /\ \A l \in 1..n : FramesOf[l] \in 0..Len(body)
      /\ \A l \in 1..n - 1 : IsFrame(body, FramesOf[l], FramesOf[l + 1])
      /\ LevelsOf = << >> => FramesBreakOff(body, FramesOf)
      /\ LevelsOf # << >> => FrameHolds(body, FramesOf, LevelsOf[1]) /\ LevelsOf[1].end \in 0..Len(body)
  <2>1. LevelsOf # << >> => 1 \in 1..Len(LevelsOf)
    BY <1>1, BreachIs
  <2> QED
    BY <1>1, <2>1, BreachIs
<1>3. /\ IsFrame(body, offset, end) /\ end \in Nat
      /\ Trailer(offset) <=> IsTrailer(body, offset)
      /\ \A j \in Nat : IsFrame(body, offset, j) => j = end
  BY <1>1, FramesAre
<1>4. end \in 0..Len(body) /\ offset + 5 <= end
  BY <1>1, FrameIs
<1> HIDE DEF end, n
<1>5. CASE k # n
  <2>1. k \in 1..n - 1 /\ k + 1 \in 1..n /\ k < n
    BY <1>2, <1>5 DEF n
  <2>2. IsFrame(body, offset, FramesOf[k + 1]) /\ FramesOf[k + 1] \in Nat
    BY <1>2, <2>1
  <2>3. end = FramesOf[k + 1]
    BY <1>3, <2>2
  <2> QED
    BY <2>1, <2>3 DEF end, n
<1>6. CASE k = n /\ LevelsOf = << >>
  <2>1. i = offset /\ i # Len(body)
    BY <1>1, <1>4, <1>6
  <2>2. \A j \in i..Len(body) : IsFrame(body, i, j) => ~IsTrailer(body, i) /\ HasMessage(body, FramesOf)
    BY <1>2, <1>6, <2>1 DEF FramesBreakOff, n
  <2>3. end \in i..Len(body)
    BY <1>1, <1>4, <2>1
  <2>4. ~Trailer(offset) /\ HasMessage(body, FramesOf)
    BY <1>3, <2>1, <2>2, <2>3
  <2>5. \A l \in 1..n - 1 : IsTrailer(body, FramesOf[l])
    BY <1>6, <2>4
  <2> QED
    BY <2>4, <2>5 DEF HasMessage, n
<1>7. CASE k = n /\ LevelsOf # << >>
  <2>1. i = offset
    BY <1>7
  <2>2. /\ IsFrame(body, i, LevelsOf[1].end) /\ ~IsTrailer(body, i) /\ LevelsOf[1].starts[1] = i + 5
        /\ LevelsOf[1].end \in Nat
    BY <1>2, <1>7 DEF FrameHolds, n
  <2>3. LevelsOf[1].end = end
    BY <1>3, <2>1, <2>2
  <2> QED
    BY <1>3, <1>7, <2>1, <2>2, <2>3 DEF end
<1> QED
  BY <1>5, <1>6, <1>7 DEF n

\* A field on the way is followed by the next one, or holds the next message on the way.
LEMMA FieldLeadsOn ==
  ASSUME DecodeInv, ~response.whole, LevelsOf # << >>, NEW d \in 1..Len(LevelsOf),
         NEW k \in 1..Len(LevelsOf[d].starts), NEW message, message = LevelsOf[d].message,
         NEW field \in Fields(LevelsOf[d].starts[k], LevelsOf[d].end)
  PROVE  \/ k < Len(LevelsOf[d].starts) /\ field.to = LevelsOf[d].starts[k + 1]
         \/ /\ d < Len(LevelsOf) /\ Opened(message, field) # {}
            /\ \A nested \in Opened(message, field) : nested[3] = LevelsOf[d + 1].message
            /\ field.from = LevelsOf[d + 1].starts[1] /\ field.to = LevelsOf[d + 1].end
<1> DEFINE level  == LevelsOf[d]
           inner  == LevelsOf[d + 1]
           n      == Len(level.starts)
           at     == level.starts[k]
<1>1. response \in Responses /\ Len(body) \in Nat /\ \A l \in 1..Len(body) : body[l] \in 0..255
  BY BodyIs DEF DecodeInv
<1>2. /\ Len(LevelsOf) \in Nat
      /\ level.end \in 0..Len(body) /\ n \in Nat \ {0}
      /\ \A l \in 1..n : level.starts[l] \in 0..level.end - 1
      /\ \A l \in 1..n - 1 : IsField(body, level.starts[l], level.starts[l + 1])
      /\ d # Len(LevelsOf) => FieldHolds(body, level, inner) /\ inner.starts[1] \in Nat /\ inner.end \in Nat
      /\ d = Len(LevelsOf) => FieldsBreakOff(body, level)
  <2>1. Len(LevelsOf) \in Nat
    BY <1>1, BreachIs
  <2>2. /\ level.end \in 0..Len(body) /\ n \in Nat \ {0}
        /\ \A l \in 1..n : level.starts[l] \in 0..level.end - 1
        /\ \A l \in 1..n - 1 : IsField(body, level.starts[l], level.starts[l + 1])
        /\ d = Len(LevelsOf) => FieldsBreakOff(body, level)
    BY <1>1, BreachIs
  <2>3. ASSUME d # Len(LevelsOf)
        PROVE  FieldHolds(body, level, inner) /\ inner.starts[1] \in Nat /\ inner.end \in Nat
    <3>1. d \in 1..Len(LevelsOf) - 1 /\ d + 1 \in 1..Len(LevelsOf)
      BY <2>1, <2>3
    <3>2. /\ inner.end \in 0..Len(body) /\ Len(inner.starts) \in Nat \ {0}
          /\ \A l \in 1..Len(inner.starts) : inner.starts[l] \in 0..inner.end - 1
          /\ FieldHolds(body, level, inner)
      BY <1>1, <3>1, BreachIs
    <3>3. inner.starts[1] \in 0..inner.end - 1
      BY <3>2
    <3> QED
      BY <3>2, <3>3
  <2> QED
    BY <2>1, <2>2, <2>3
<1>3. at \in 0..level.end - 1 /\ at \in Nat /\ level.end \in Nat
  BY <1>2
<1>4. /\ IsField(body, at, field.to)
      /\ \A number, from, to \in Nat :
           HoldsMessage(body, at, number, from, to) =>
             field.number = number /\ field.wire_type = 2 /\ field.from = from /\ field.to = to
  <2>1. /\ response \in Responses /\ at \in Nat /\ level.end \in 0..Len(body)
        /\ field \in Fields(at, level.end)
    BY <1>1, <1>2, <1>3
  <2> HIDE DEF level, at
  <2> QED
    BY <2>1, FieldsAreFields
<1>5. field.to \in Nat /\ field.to \in 0..level.end
  BY <1>3, FieldsLie
<1>6. CASE k # n
  <2>1. k \in 1..n - 1 /\ k + 1 \in 1..n /\ k < n
    BY <1>2, <1>6
  <2>2. IsField(body, at, level.starts[k + 1]) /\ level.starts[k + 1] \in Nat
    BY <1>2, <2>1
  <2> DEFINE next == level.starts[k + 1]
             b    == body
             to   == field.to
  <2>3. /\ Len(b) \in Nat /\ \A l \in 1..Len(b) : b[l] \in 0..255
        /\ at \in Nat /\ to \in Nat /\ IsField(b, at, to) /\ next \in Nat /\ IsField(b, at, next)
    BY <1>1, <1>3, <1>4, <1>5, <2>2
  <2> HIDE DEF next, b, to, at
  <2>4. to = next
    BY <2>3, FieldIsOne
  <2> QED
    BY <2>1, <2>4 DEF next, to
<1>7. CASE k = n /\ d = Len(LevelsOf)
  <2>1. ~IsField(body, at, field.to)
    BY <1>2, <1>5, <1>7 DEF FieldsBreakOff
  <2> QED
    BY <1>4, <2>1
<1>8. CASE k = n /\ d # Len(LevelsOf)
  <2>1. PICK nested \in Nested : /\ nested[1] = level.message /\ nested[3] = inner.message
                                 /\ HoldsMessage(body, at, nested[2], inner.starts[1], inner.end)
    BY <1>2, <1>8 DEF FieldHolds
  <2>2. nested[2] \in Nat
    BY <2>1 DEF Nested
  <2>3. /\ field.number = nested[2] /\ field.wire_type = 2
        /\ field.from = inner.starts[1] /\ field.to = inner.end
    BY <1>2, <1>4, <1>8, <2>1, <2>2
  <2>4. nested \in Opened(message, field)
    BY <2>1, <2>3 DEF Opened
  <2>5. \A other \in Opened(message, field) : other[3] = nested[3]
    <3>1. \A other \in Opened(message, field) :
            other \in Nested /\ other[1] = nested[1] /\ other[2] = nested[2]
      BY <2>1, <2>3 DEF Opened
    <3>2. \A other \in Nested : other[1] = nested[1] /\ other[2] = nested[2] => other[3] = nested[3]
      BY <2>1 DEF Nested
    <3> QED
      BY <3>1, <3>2
  <2>6. d < Len(LevelsOf)
    BY <1>2, <1>8
  <2> QED
    BY <2>1, <2>3, <2>4, <2>5, <2>6
<1> QED
  BY <1>6, <1>7, <1>8

\* What is read depends on the answer alone.
LEMMA BreachStays ==
  ASSUME response' = response
  PROVE  body' = body /\ FramesOf' = FramesOf /\ LevelsOf' = LevelsOf
  BY DEF body, FramesOf, LevelsOf

\* A field that is read leads on, or ends the reading.
LEMMA ReadFieldLeads ==
  ASSUME DecodeInv, ~response.whole, ReadersLead, ReadField
  PROVE  ReadersLead'
<1> DEFINE n == Len(stack)
<1>1. response' = response /\ pc = "read"
  BY DEF ReadField
<1>2. body' = body /\ FramesOf' = FramesOf /\ LevelsOf' = LevelsOf
  BY <1>1, BreachStays
<1>3. /\ n \in Nat \ {0} /\ Top = stack[n]
      /\ \E to : LieInEachOther(stack, to) /\ stack # << >>
  <2>1. PICK to : LieInEachOther(stack, to) /\ stack # << >>
    BY <1>1 DEF DecodeInv
  <2> QED
    BY <2>1, FrontIs DEF LieInEachOther, Top, Last
<1>4. PICK field \in Fields(Top.cursor, Top.end) :
        /\ stack'[n].message = Top.message /\ stack'[n].end = Top.end
        /\ stack'[n].cursor = field.to
        /\ \A i \in 1..n - 1 : stack'[i] = stack[i]
        /\ \/ Len(stack') = n /\ Opened(Top.message, field) = {}
           \/ /\ Len(stack') = n + 1
              /\ stack'[n + 1].cursor = field.from /\ stack'[n + 1].end = field.to
              /\ \E nested \in Opened(Top.message, field) : stack'[n + 1].message = nested[3]
  BY <1>3, ReadFieldMoves
<1>5. LevelsOf # << >>
  BY DEF ReadersLead
<1>6. PICK d \in 1..n : d <= Len(LevelsOf) /\ OnWay(stack[d], LevelsOf[d])
  BY DEF ReadersLead
<1>7. Len(LevelsOf) \in Nat /\ d \in 1..Len(LevelsOf)
  <2>1. Len(LevelsOf) \in Nat
    BY BreachIs DEF DecodeInv
  <2> QED
    BY <1>3, <1>6, <2>1
<1> HIDE DEF n
<1>8. CASE d # n
  <2>1. d \in 1..n - 1 /\ stack'[d] = stack[d] /\ d \in 1..Len(stack')
    BY <1>3, <1>4, <1>8
  <2>2. OnWay(stack'[d], LevelsOf[d])
    BY <1>6, <2>1
  <2> QED
    BY <1>2, <1>5, <1>6, <2>1, <2>2 DEF ReadersLead, OnWay
<1>9. CASE d = n
  <2>1. PICK k \in 1..Len(LevelsOf[d].starts) : Top.cursor = LevelsOf[d].starts[k]
    BY <1>3, <1>6, <1>9 DEF OnWay
  <2>2. Top.message = LevelsOf[d].message /\ Top.end = LevelsOf[d].end
    BY <1>3, <1>6, <1>9 DEF OnWay
  <2>3. field \in Fields(LevelsOf[d].starts[k], LevelsOf[d].end)
    BY <2>1, <2>2
  <2>4. \/ k < Len(LevelsOf[d].starts) /\ field.to = LevelsOf[d].starts[k + 1]
        \/ /\ d < Len(LevelsOf) /\ Opened(Top.message, field) # {}
           /\ \A nested \in Opened(Top.message, field) : nested[3] = LevelsOf[d + 1].message
           /\ field.from = LevelsOf[d + 1].starts[1] /\ field.to = LevelsOf[d + 1].end
    BY <1>5, <1>7, <2>2, <2>3, FieldLeadsOn
  <2>5. CASE k < Len(LevelsOf[d].starts) /\ field.to = LevelsOf[d].starts[k + 1]
    <3>1. k + 1 \in 1..Len(LevelsOf[d].starts)
      <4>1. Len(LevelsOf[d].starts) \in Nat
        BY <1>5, <1>7, BreachIs DEF DecodeInv
      <4> QED
        BY <2>5, <4>1
    <3>2. OnWay(stack'[d], LevelsOf[d])
      BY <1>4, <1>9, <2>2, <2>5, <3>1 DEF OnWay
    <3>3. d \in 1..Len(stack')
      BY <1>3, <1>4, <1>9
    <3> QED
      BY <1>2, <1>5, <1>6, <3>2, <3>3 DEF ReadersLead, OnWay
  <2>6. CASE /\ d < Len(LevelsOf) /\ Opened(Top.message, field) # {}
             /\ \A nested \in Opened(Top.message, field) : nested[3] = LevelsOf[d + 1].message
             /\ field.from = LevelsOf[d + 1].starts[1] /\ field.to = LevelsOf[d + 1].end
    <3>1. /\ Len(stack') = n + 1 /\ stack'[n + 1].message = LevelsOf[n + 1].message
          /\ stack'[n + 1].cursor = LevelsOf[n + 1].starts[1] /\ stack'[n + 1].end = LevelsOf[n + 1].end
      BY <1>4, <1>9, <2>6
    <3>2. n + 1 \in 1..Len(LevelsOf)
      BY <1>3, <1>7, <1>9, <2>6
    <3>3. 1 \in 1..Len(LevelsOf[n + 1].starts)
      <4>1. Len(LevelsOf[n + 1].starts) \in Nat \ {0}
        BY <1>5, <3>2, BreachIs DEF DecodeInv
      <4> QED
        BY <4>1
    <3>4. OnWay(stack'[n + 1], LevelsOf[n + 1])
      BY <3>1, <3>3 DEF OnWay
    <3>5. n + 1 \in 1..Len(stack') /\ n + 1 <= Len(LevelsOf)
      BY <1>3, <1>7, <3>1, <3>2
    <3> QED
      BY <1>2, <1>5, <3>4, <3>5 DEF ReadersLead, OnWay
  <2> QED
    BY <2>4, <2>5, <2>6
<1> QED
  BY <1>8, <1>9

\* A reader on the way has not come to its end.
LEMMA NotAtEnd ==
  ASSUME DecodeInv, ~response.whole, LevelsOf # << >>, NEW d \in 1..Len(LevelsOf),
         NEW reader, OnWay(reader, LevelsOf[d])
  PROVE  reader.cursor # reader.end
<1>1. PICK k \in 1..Len(LevelsOf[d].starts) : reader.cursor = LevelsOf[d].starts[k]
  BY DEF OnWay
<1>2. LevelsOf[d].end \in 0..Len(body) /\ LevelsOf[d].starts[k] \in 0..LevelsOf[d].end - 1
  BY BreachIs DEF DecodeInv
<1>3. Len(body) \in Nat /\ reader.end = LevelsOf[d].end
  BY DEF DecodeInv, OnWay
<1> QED
  BY <1>1, <1>2, <1>3

\* A message that is closed is not on the way.
LEMMA CloseMessageLeads ==
  ASSUME DecodeInv, ~response.whole, ReadersLead, CloseMessage
  PROVE  ReadersLead'
<1> DEFINE n == Len(stack)
<1>1. response' = response /\ pc = "read" /\ Top.cursor = Top.end
  BY DEF CloseMessage
<1>2. body' = body /\ FramesOf' = FramesOf /\ LevelsOf' = LevelsOf
  BY <1>1, BreachStays
<1>3. PICK to : LieInEachOther(stack, to) /\ stack # << >>
  BY <1>1 DEF DecodeInv
<1>4. n \in Nat \ {0} /\ Top = stack[n]
  BY <1>3, FrontIs DEF LieInEachOther, Top, Last
<1>5. /\ n > 1 /\ Len(stack') = n - 1
      /\ \A i \in 1..n - 1 : /\ stack'[i].message = stack[i].message
                             /\ stack'[i].cursor = stack[i].cursor /\ stack'[i].end = stack[i].end
  BY <1>3, CloseMessageMoves
<1>6. LevelsOf # << >>
  BY DEF ReadersLead
<1>7. PICK d \in 1..n : d <= Len(LevelsOf) /\ OnWay(stack[d], LevelsOf[d])
  BY DEF ReadersLead
<1>8. Len(LevelsOf) \in Nat /\ d \in 1..Len(LevelsOf)
  <2>1. Len(LevelsOf) \in Nat
    BY BreachIs DEF DecodeInv
  <2> QED
    BY <1>4, <1>7, <2>1
<1> HIDE DEF n
<1>9. d # n
  BY <1>1, <1>4, <1>6, <1>7, <1>8, NotAtEnd
<1>10. d \in 1..n - 1 /\ d \in 1..Len(stack')
  BY <1>4, <1>5, <1>9
<1>11. OnWay(stack'[d], LevelsOf[d])
  BY <1>5, <1>7, <1>10 DEF OnWay
<1> QED
  BY <1>2, <1>6, <1>7, <1>10, <1>11 DEF ReadersLead, OnWay

\* A frame that is stepped over or taken leads on.
LEMMA UnframeLeads ==
  ASSUME DecodeInv, ~response.whole, FramesLead \/ MessageLeads, SkipTrailer \/ TakeMessage
  PROVE  FramesLead' \/ MessageLeads'
<1>1. /\ response' = response /\ offset' = FrameEnd(offset)
      /\ FrameIsWhole(offset) /\ ~Compressed(offset)
      /\ \/ Trailer(offset) /\ messages' = messages
         \/ /\ ~Trailer(offset) /\ messages = << >>
            /\ messages' = <<[from |-> offset + 5, to |-> FrameEnd(offset)]>>
  BY DEF SkipTrailer, TakeMessage
<1>2. body' = body /\ FramesOf' = FramesOf /\ LevelsOf' = LevelsOf
  BY <1>1, BreachStays
<1>3. CASE MessageLeads
  <2>1. messages # << >> /\ messages' = messages
    BY <1>1, <1>3 DEF MessageLeads
  <2> QED
    BY <1>2, <1>3, <2>1 DEF MessageLeads
<1>4. CASE FramesLead
  <2>1. PICK k \in 1..Len(FramesOf) :
          /\ offset = FramesOf[k]
          /\ messages = << >> <=> \A l \in 1..k - 1 : IsTrailer(body, FramesOf[l])
    BY <1>4 DEF FramesLead
  <2>2. /\ Len(FramesOf) \in Nat
        /\ Trailer(offset) <=> IsTrailer(body, offset)
    BY <1>1, BreachIs, FramesAre DEF DecodeInv
  <2>3. \/ k < Len(FramesOf) /\ FrameEnd(offset) = FramesOf[k + 1]
        \/ /\ LevelsOf # << >> /\ ~Trailer(offset)
           /\ LevelsOf[1].starts[1] = offset + 5 /\ LevelsOf[1].end = FrameEnd(offset)
    BY <1>1, <2>1, FrameLeadsOn
  <2>4. CASE k < Len(FramesOf) /\ FrameEnd(offset) = FramesOf[k + 1]
    <3>1. k + 1 \in 1..Len(FramesOf) /\ offset' = FramesOf[k + 1] /\ (k + 1) - 1 = k
      BY <1>1, <2>2, <2>4
    <3>2. messages' = << >> <=> \A l \in 1..k : IsTrailer(body, FramesOf[l])
      <4>1. (\A l \in 1..k : IsTrailer(body, FramesOf[l])) <=>
              (\A l \in 1..k - 1 : IsTrailer(body, FramesOf[l])) /\ Trailer(offset)
        <5>1. \A l \in 1..k : l = k \/ l \in 1..k - 1
          OBVIOUS
        <5>2. k \in 1..k /\ \A l \in 1..k - 1 : l \in 1..k
          OBVIOUS
        <5> QED
          BY <2>1, <2>2, <5>1, <5>2
      <4>2. messages' = << >> <=> messages = << >> /\ Trailer(offset)
        BY <1>1
      <4> QED
        BY <2>1, <4>1, <4>2
    <3> QED
      BY <1>2, <3>1, <3>2 DEF FramesLead
  <2>5. CASE /\ LevelsOf # << >> /\ ~Trailer(offset)
             /\ LevelsOf[1].starts[1] = offset + 5 /\ LevelsOf[1].end = FrameEnd(offset)
    BY <1>1, <1>2, <2>5 DEF MessageLeads
  <2> QED
    BY <2>3, <2>4, <2>5
<1> QED
  BY <1>3, <1>4

\* At the end of the frames there is no message, or the one that leads on is opened.
LEMMA EndOfFramesLeads ==
  ASSUME DecodeInv, ~response.whole, FramesLead \/ MessageLeads, EndOfFrames, messages # << >>
  PROVE  pc' = "read" /\ ReadersLead'
<1>1. /\ response' = response /\ pc' = "read" /\ offset = Len(body)
      /\ stack' = <<Reader("response", messages[1].from, messages[1].to)>>
  BY DEF EndOfFrames, DecodeInv, Remaining
<1>2. body' = body /\ FramesOf' = FramesOf /\ LevelsOf' = LevelsOf
  BY <1>1, BreachStays
<1>3. /\ Len(body) \in Nat
      /\ Len(FramesOf) \in Nat \ {0}
      /\ \A l \in 1..Len(FramesOf) - 1 : IsFrame(body, FramesOf[l], FramesOf[l + 1])
      /\ LevelsOf = << >> => FramesBreakOff(body, FramesOf)
      /\ LevelsOf # << >> => FrameHolds(body, FramesOf, LevelsOf[1])
  BY BreachIs DEF DecodeInv
<1>4. \A l \in 1..Len(FramesOf) : FramesOf[l] \in 0..Len(body)
  BY BreachIs DEF DecodeInv
<1>5. \A j : ~IsFrame(body, Len(body), j) \/ j \notin Nat
  BY <1>3 DEF IsFrame
<1>6. ~FramesLead
  <2> SUFFICES ASSUME NEW k \in 1..Len(FramesOf), offset = FramesOf[k],
                      messages = << >> <=> \A l \in 1..k - 1 : IsTrailer(body, FramesOf[l])
               PROVE  FALSE
    BY DEF FramesLead
  <2>1. k = Len(FramesOf)
    <3> SUFFICES ASSUME k # Len(FramesOf) PROVE FALSE
      OBVIOUS
    <3>1. k \in 1..Len(FramesOf) - 1 /\ k + 1 \in 1..Len(FramesOf)
      BY <1>3
    <3>2. IsFrame(body, FramesOf[k], FramesOf[k + 1])
      BY <1>3, <3>1
    <3>3. FramesOf[k] = Len(body)
      BY <1>1
    <3>4. FramesOf[k + 1] \in Nat
      BY <1>3, <1>4, <3>1
    <3> QED
      BY <1>5, <3>2, <3>3, <3>4
  <2>2. LevelsOf = << >>
    <3> SUFFICES ASSUME LevelsOf # << >> PROVE FALSE
      OBVIOUS
    <3>1. IsFrame(body, Len(body), LevelsOf[1].end)
      BY <1>1, <1>3, <2>1 DEF FrameHolds
    <3>2. Len(body) + 5 <= LevelsOf[1].end /\ LevelsOf[1].end <= Len(body)
      BY <3>1 DEF IsFrame
    <3>3. LevelsOf[1].end \in Nat
      <4>1. 1 \in 1..Len(LevelsOf)
        BY BreachIs DEF DecodeInv
      <4>2. LevelsOf[1].end \in 0..Len(body)
        BY <4>1, BreachIs DEF DecodeInv
      <4> QED
        BY <4>2
    <3> QED
      BY <1>3, <3>2, <3>3
  <2>3. ~HasMessage(body, FramesOf)
    <3>1. FramesOf[Len(FramesOf)] = Len(body)
      BY <1>1, <2>1
    <3> QED
      BY <1>3, <2>2, <3>1 DEF FramesBreakOff
  <2>4. \A l \in 1..k - 1 : IsTrailer(body, FramesOf[l])
    BY <2>1, <2>3 DEF HasMessage
  <2> QED
    BY <2>4
<1>7. LevelsOf # << >> /\ messages = <<[from |-> LevelsOf[1].starts[1], to |-> LevelsOf[1].end]>>
  BY <1>6 DEF MessageLeads
<1> DEFINE level == LevelsOf[1]
           r     == Reader("response", level.starts[1], level.end)
<1>8. stack' = <<r>>
  BY <1>1, <1>7
<1>9. r.message = "response" /\ r.cursor = level.starts[1] /\ r.end = level.end
  BY DEF Reader
<1>10. Len(LevelsOf) \in Nat \ {0} /\ 1 \in 1..Len(level.starts) /\ level.message = "response"
  <2>1. Len(LevelsOf) \in Nat \ {0}
    BY <1>7, BreachIs DEF DecodeInv
  <2>2. 1 \in 1..Len(LevelsOf)
    BY <2>1
  <2>3. Len(level.starts) \in Nat \ {0}
    BY <1>7, <2>2, BreachIs DEF DecodeInv
  <2> QED
    BY <1>3, <1>7, <2>1, <2>3 DEF FrameHolds
<1> HIDE DEF r
<1>11. OnWay(r, level)
  BY <1>9, <1>10 DEF OnWay
<1>12. Len(<<r>>) = 1 /\ <<r>>[1] = r
  OBVIOUS
<1>13. 1 \in 1..Len(stack') /\ 1 <= Len(LevelsOf) /\ OnWay(stack'[1], level)
  BY <1>8, <1>10, <1>11, <1>12
<1> QED
  BY <1>1, <1>2, <1>7, <1>13 DEF ReadersLead, OnWay

\* So every step leads on or is a refusal.
LEMMA BreachInvNext == DecodeInv /\ BreachInv /\ [DecodeNext]_decodeVars => BreachInv'
<1> SUFFICES ASSUME DecodeInv, BreachInv, [DecodeNext]_decodeVars, ~response'.whole
             PROVE  /\ pc' = "unframe" => FramesLead' \/ MessageLeads'
                    /\ pc' = "read" => ReadersLead'
                    /\ pc' # "done"
  BY DEF BreachInv
<1>1. response' = response
  BY DEF DecodeNext, Unframe, ReadMessages, RefuseFrame, SkipTrailer, TakeMessage, EndOfFrames,
         Malformed, ReadField, CloseMessage, Join, decodeVars
<1>2. /\ ~response.whole
      /\ pc = "unframe" => FramesLead \/ MessageLeads
      /\ pc = "read" => ReadersLead
      /\ pc # "done"
  BY <1>1 DEF BreachInv
<1>3. body' = body /\ FramesOf' = FramesOf /\ LevelsOf' = LevelsOf
  BY <1>1, BreachStays
<1>4. CASE UNCHANGED decodeVars
  BY <1>2, <1>3, <1>4 DEF decodeVars, FramesLead, MessageLeads, ReadersLead, OnWay
<1>5. CASE RefuseFrame \/ Malformed
  BY <1>5 DEF RefuseFrame, Malformed
<1>6. CASE SkipTrailer \/ TakeMessage
  <2>1. pc = "unframe" /\ pc' = "unframe"
    BY <1>6 DEF SkipTrailer, TakeMessage
  <2>2. FramesLead' \/ MessageLeads'
    BY <1>2, <1>6, <2>1, UnframeLeads
  <2> QED
    BY <2>1, <2>2
<1>7. CASE EndOfFrames
  <2>1. pc = "unframe" /\ (messages = << >> => pc' = "refused")
    BY <1>7 DEF EndOfFrames
  <2>2. messages # << >> => pc' = "read" /\ ReadersLead'
    BY <1>2, <1>7, <2>1, EndOfFramesLeads
  <2> QED
    BY <2>1, <2>2
<1>8. CASE ReadField
  <2>1. pc = "read" /\ pc' = "read"
    BY <1>8 DEF ReadField
  <2>2. ReadersLead'
    BY <1>2, <1>8, <2>1, ReadFieldLeads
  <2> QED
    BY <2>1, <2>2
<1>9. CASE CloseMessage
  <2>1. pc = "read" /\ pc' = "read"
    BY <1>9 DEF CloseMessage
  <2>2. ReadersLead'
    BY <1>2, <1>9, <2>1, CloseMessageLeads
  <2> QED
    BY <2>1, <2>2
<1>10. CASE Join
  <2>1. pc = "read" /\ Len(stack) = 1 /\ Top.cursor = Top.end
    BY <1>10 DEF Join
  <2>2. Top = stack[1]
    BY <2>1 DEF Top, Last
  <2>3. ReadersLead
    BY <1>2, <2>1
  <2>4. PICK d \in 1..1 : d <= Len(LevelsOf) /\ OnWay(stack[d], LevelsOf[d])
    BY <2>1, <2>3 DEF ReadersLead
  <2>5. Len(LevelsOf) \in Nat
    BY <1>2, BreachIs DEF DecodeInv
  <2>6. d \in 1..Len(LevelsOf) /\ OnWay(Top, LevelsOf[d])
    BY <2>2, <2>4, <2>5
  <2> QED
    BY <1>2, <2>1, <2>3, <2>6, NotAtEnd DEF ReadersLead
<1> QED
  BY <1>4, <1>5, <1>6, <1>7, <1>8, <1>9, <1>10 DEF DecodeNext, Unframe, ReadMessages

\* It holds at the start of an answer.
LEMMA BreachInvInit == DecodeInit => BreachInv
<1> SUFFICES ASSUME DecodeInit, ~response.whole PROVE FramesLead /\ pc = "unframe"
  BY DEF BreachInv
<1>1. response \in Responses /\ pc = "unframe" /\ offset = 0 /\ messages = << >>
  BY DEF DecodeInit
<1>2. Len(FramesOf) \in Nat \ {0} /\ FramesOf[1] = 0
  BY <1>1, BreachIs
<1>3. 1 \in 1..Len(FramesOf) /\ \A l \in 1..1 - 1 : FALSE
  BY <1>2
<1> QED
  BY <1>1, <1>2, <1>3 DEF FramesLead

\* An answer that breaks off, in whatever message, yields no rows: it is read up to there
\* and refused, or refused before (gcloud_topology.cpp:106, gcloud_client.cpp:397).
THEOREM PartsAreRefused == DecodeSpec => []CutShortIsRefused
<1>1. BreachInv => CutShortIsRefused
  BY DEF BreachInv, CutShortIsRefused
<1> QED
  BY <1>1, DecodeInvInit, DecodeInvNext, BreachInvInit, BreachInvNext, PTL DEF DecodeSpec

-----------------------------------------------------------------------------
(* Decoding takes few steps                                                *)

\* No open message reaches past the body.
WithinBody == pc = "read" => \A i \in 1..Len(stack) : stack[i].end <= Len(body)

\* What is left to be read, of n bytes 3n+3 at the start.  A byte may be read twice, as one of a frame
\* and as one of a message, and each message is closed.
Left ==
  CASE pc = "unframe" -> 3 * Len(body) + 3 - offset
    [] pc = "read"    -> 2 * (Len(body) - Top.cursor) + Len(stack)
    [] OTHER          -> 0

\* With each step less is left.
LEMMA LessIsLeft ==
  ASSUME DecodeInv, WithinBody, DecodeNext
  PROVE  WithinBody' /\ Left \in Nat /\ Left' \in Nat /\ Left' < Left
<1> DEFINE size == Len(body)
           n    == Len(stack)
<1>1. size \in Nat /\ offset \in 0..size
  BY DEF DecodeInv
<1>2. ASSUME NEW to, LieInEachOther(stack, to), stack # << >>
      PROVE  /\ n \in Nat \ {0} /\ Top = stack[n] /\ IsReader(Top)
             /\ \A i \in 1..n : IsReader(stack[i])
  BY <1>2, FrontIs DEF LieInEachOther, Top, Last
<1>3. pc = "read" =>
        /\ stack # << >> /\ \E to : LieInEachOther(stack, to)
        /\ n \in Nat \ {0} /\ Top = stack[n] /\ Top.end \in Nat /\ Top.cursor \in 0..Top.end /\ Top.end <= size
        /\ Left = 2 * (size - Top.cursor) + n
  <2> SUFFICES ASSUME pc = "read"
               PROVE  /\ stack # << >> /\ \E to : LieInEachOther(stack, to)
                      /\ n \in Nat \ {0} /\ Top = stack[n] /\ Top.end \in Nat /\ Top.cursor \in 0..Top.end
                      /\ Top.end <= size /\ Left = 2 * (size - Top.cursor) + n
    OBVIOUS
  <2>1. stack # << >> /\ \E to : LieInEachOther(stack, to)
    BY DEF DecodeInv
  <2>2. n \in Nat \ {0} /\ Top = stack[n] /\ IsReader(Top)
    BY <1>2, <2>1
  <2>3. Top.end <= size
    BY <2>2 DEF WithinBody
  <2> QED
    BY <2>1, <2>2, <2>3 DEF IsReader, Left
<1>4. pc = "unframe" => Left = 3 * size + 3 - offset
  BY DEF Left
<1>5. pc = "read" => Left \in Nat \ {0}
  <2> HIDE DEF size, n
  <2> QED
    BY <1>1, <1>3
<1>6. pc = "unframe" => Left \in Nat \ {0}
  <2> HIDE DEF size
  <2> QED
    BY <1>1, <1>4
<1>7. body' = body
  BY DEF DecodeNext, Unframe, ReadMessages, RefuseFrame, SkipTrailer, TakeMessage, EndOfFrames,
         Malformed, ReadField, CloseMessage, Join, body
<1>8. pc \in {"unframe", "read"}
  BY DEF DecodeNext, Unframe, ReadMessages, RefuseFrame, SkipTrailer, TakeMessage, EndOfFrames,
         Malformed, ReadField, CloseMessage, Join
<1>9. ASSUME pc' \in {"done", "refused"} PROVE WithinBody' /\ Left' \in Nat /\ Left' < Left
  <2>1. Left' = 0
    BY <1>9 DEF Left
  <2> QED
    BY <1>5, <1>6, <1>8, <1>9, <2>1 DEF WithinBody
<1>10. CASE RefuseFrame \/ Malformed \/ Join
  BY <1>5, <1>6, <1>8, <1>9, <1>10 DEF RefuseFrame, Malformed, Join
<1>11. CASE SkipTrailer \/ TakeMessage
  <2>1. pc = "unframe" /\ pc' = "unframe" /\ FrameIsWhole(offset) /\ offset' = FrameEnd(offset)
    BY <1>11 DEF SkipTrailer, TakeMessage
  <2>2. FrameEnd(offset) \in 0..size /\ offset + 5 <= FrameEnd(offset)
    BY <1>1, <2>1, FrameIs DEF DecodeInv
  <2>3. Left' = 3 * size + 3 - FrameEnd(offset)
    BY <1>7, <2>1 DEF Left
  <2> HIDE DEF size
  <2>4. Left' \in Nat /\ Left' < Left
    BY <1>1, <1>4, <2>1, <2>2, <2>3
  <2> QED
    BY <1>6, <2>1, <2>4 DEF WithinBody
<1>12. CASE EndOfFrames
  <2>1. CASE messages = << >>
    BY <1>6, <1>8, <1>9, <1>12, <2>1 DEF EndOfFrames
  <2>2. CASE messages # << >>
    <3>1. PICK from \in 0..size, to \in 0..size : from <= to /\ messages = <<[from |-> from, to |-> to]>>
      BY <2>2 DEF DecodeInv
    <3> DEFINE r == Reader("response", from, to)
    <3>2. r.end = to /\ r.cursor = from
      BY DEF Reader
    <3>3. pc = "unframe" /\ pc' = "read" /\ stack' = <<r>> /\ offset = size
      BY <1>1, <1>12, <2>2, <3>1 DEF EndOfFrames, Remaining
    <3> HIDE DEF r
    <3>4. Len(<<r>>) = 1 /\ <<r>>[1] = r
      OBVIOUS
    <3>5. Left' = 2 * (size - from) + 1
      BY <1>7, <3>2, <3>3, <3>4 DEF Left, Top, Last
    <3>6. WithinBody'
      BY <1>7, <3>1, <3>2, <3>3, <3>4 DEF WithinBody
    <3> HIDE DEF size
    <3>7. Left' \in Nat /\ Left' < Left
      BY <1>1, <1>4, <3>1, <3>3, <3>5
    <3> QED
      BY <1>6, <3>3, <3>6, <3>7
  <2> QED
    BY <2>1, <2>2
<1>13. CASE ReadField
  <2>1. pc = "read" /\ pc' = "read"
    BY <1>13 DEF ReadField
  <2>2. PICK field \in Fields(Top.cursor, Top.end) :
           /\ stack'[n].cursor = field.to /\ stack'[n].end = Top.end
           /\ \A i \in 1..n - 1 : stack'[i] = stack[i]
           /\ \/ Len(stack') = n
              \/ /\ Len(stack') = n + 1
                 /\ stack'[n + 1].cursor = field.from /\ stack'[n + 1].end = field.to
    BY <1>3, <1>13, <2>1, ReadFieldMoves
  <2>3. /\ field.from \in Nat /\ field.to \in Nat
        /\ Top.cursor < field.from /\ field.from <= field.to /\ field.to <= Top.end
    BY <1>3, <2>1, FieldsLie
  <2>4. Left' = 2 * (size - stack'[Len(stack')].cursor) + Len(stack')
    BY <1>7, <2>1 DEF Left, Top, Last
  <2>5. \A i \in 1..n : stack[i].end <= size
    BY <2>1 DEF WithinBody
  <2> HIDE DEF size, n
  <2>6. Left' \in Nat /\ Left' < Left
    <3> DEFINE cursor == Top.cursor
               end    == Top.end
               from   == field.from
               to     == field.to
    <3>1. /\ cursor \in 0..end /\ end \in Nat /\ end <= size /\ n \in Nat \ {0} /\ Left = 2 * (size - cursor) + n
          /\ from \in Nat /\ to \in Nat /\ cursor < from /\ from <= to /\ to <= end
      BY <1>3, <2>1, <2>3
    <3>2. Left' = 2 * (size - to) + n \/ Left' = 2 * (size - from) + (n + 1)
      <4>1. CASE Len(stack') = n /\ stack'[n].cursor = to
        BY <2>4, <4>1
      <4>2. CASE Len(stack') = n + 1 /\ stack'[n + 1].cursor = from
        BY <2>4, <4>2
      <4> QED
        BY <2>2, <4>1, <4>2
    <3> HIDE DEF cursor, end, from, to
    <3> QED
      BY <1>1, <3>1, <3>2
  <2>7. \A i \in 1..Len(stack') : stack'[i].end <= size
    <3> SUFFICES ASSUME NEW i \in 1..Len(stack') PROVE stack'[i].end <= size
      OBVIOUS
    <3>1. CASE i \in 1..n - 1
      <4>1. i \in 1..n /\ stack'[i] = stack[i]
        BY <1>3, <2>1, <2>2, <3>1
      <4> QED
        BY <2>5, <4>1
    <3>2. CASE i = n
      BY <1>3, <2>1, <2>2, <3>2
    <3>3. CASE i = n + 1
      <4>1. stack'[i].end = field.to
        BY <1>3, <2>1, <2>2, <3>3
      <4>2. field.to \in Nat /\ Top.end \in Nat /\ field.to <= Top.end /\ Top.end <= size
        BY <1>3, <2>1, <2>3
      <4> QED
        BY <1>1, <4>1, <4>2
    <3> QED
      BY <1>3, <2>1, <2>2, <3>1, <3>2, <3>3
  <2> QED
    BY <1>5, <1>7, <2>1, <2>6, <2>7 DEF WithinBody, size
<1>14. CASE CloseMessage
  <2>1. pc = "read" /\ pc' = "read"
    BY <1>14 DEF CloseMessage
  <2>2. /\ n > 1 /\ Len(stack') = n - 1
        /\ \A i \in 1..n - 1 : stack'[i].cursor = stack[i].cursor /\ stack'[i].end = stack[i].end
        /\ stack[n - 1].cursor = Top.cursor
    BY <1>3, <1>14, <2>1, CloseMessageMoves
  <2>3. Left' = 2 * (size - stack'[Len(stack')].cursor) + Len(stack')
    BY <1>7, <2>1 DEF Left, Top, Last
  <2>4. \A i \in 1..n : stack[i].end <= size
    BY <2>1 DEF WithinBody
  <2> HIDE DEF size, n
  <2>5. stack'[n - 1].cursor = Top.cursor
    BY <1>3, <2>1, <2>2
  <2>6. Left' \in Nat /\ Left' < Left
    BY <1>1, <1>3, <2>1, <2>2, <2>3, <2>5
  <2>7. \A i \in 1..Len(stack') : stack'[i].end <= size
    BY <1>3, <2>1, <2>2, <2>4
  <2> QED
    BY <1>5, <1>7, <2>1, <2>6, <2>7 DEF WithinBody, size
<1> QED
  BY <1>10, <1>11, <1>12, <1>13, <1>14 DEF DecodeNext, Unframe, ReadMessages

\* Every step of the decoding comes nearer to its end, whatever the bytes: a body of n bytes
\* takes at most 3n+3 steps, so a malformed one is no loop (gcloud_topology.cpp:57).
THEOREM DecodingComesToItsEnd ==
  DecodeSpec => []((pc = "unframe" /\ offset = 0 => Left = 3 * Len(body) + 3) /\ Left >= 0)
                  /\ [][Left' < Left]_decodeVars
<1>1. DecodeInit => WithinBody
  BY DEF DecodeInit, WithinBody
<1>2. DecodeInv /\ WithinBody => (pc = "unframe" /\ offset = 0 => Left = 3 * Len(body) + 3) /\ Left >= 0
  <2> SUFFICES ASSUME DecodeInv, WithinBody
               PROVE  (pc = "unframe" /\ offset = 0 => Left = 3 * Len(body) + 3) /\ Left >= 0
    OBVIOUS
  <2> DEFINE size == Len(body)
  <2>1. size \in Nat /\ offset \in 0..size /\ pc \in {"unframe", "read", "done", "refused"}
    BY DEF DecodeInv
  <2>2. CASE pc = "unframe"
    <3>1. Left = 3 * size + 3 - offset
      BY <2>2 DEF Left
    <3> HIDE DEF size
    <3>2. Left >= 0 /\ (offset = 0 => Left = 3 * size + 3)
      BY <2>1, <3>1
    <3> QED
      BY <3>2 DEF size
  <2>3. CASE pc = "read"
    <3>1. stack # << >> /\ \E to : LieInEachOther(stack, to)
      BY <2>3 DEF DecodeInv
    <3>2. /\ Len(stack) \in Nat \ {0} /\ Top = stack[Len(stack)] /\ IsReader(Top)
      BY <3>1, FrontIs DEF LieInEachOther, Top, Last
    <3>3. Top.end <= size
      BY <2>3, <3>2 DEF WithinBody
    <3>4. Left = 2 * (size - Top.cursor) + Len(stack)
      BY <2>3 DEF Left
    <3> HIDE DEF size
    <3>5. Left >= 0
      BY <2>1, <3>2, <3>3, <3>4 DEF IsReader
    <3> QED
      BY <2>3, <3>5
  <2>4. CASE pc \in {"done", "refused"}
    BY <2>4 DEF Left
  <2> QED
    BY <2>1, <2>2, <2>3, <2>4
<1>3. DecodeInv /\ WithinBody /\ [DecodeNext]_decodeVars => WithinBody' /\ [Left' < Left]_decodeVars
  <2>1. CASE DecodeNext
    BY <2>1, LessIsLeft
  <2>2. CASE UNCHANGED decodeVars
    BY <2>2 DEF decodeVars, WithinBody, body
  <2> QED
    BY <2>1, <2>2
<1> QED
  BY <1>1, <1>2, <1>3, DecodeInvInit, DecodeInvNext, PTL DEF DecodeSpec
=============================================================================
