--------------------------- MODULE BindingProofs ----------------------------
(***************************************************************************)
(* Proofs about Binding, for any secrets, files, projects and statements   *)
(* and any number of changes.                                              *)
(***************************************************************************)
EXTENDS Binding, TLAPS

Kinds == Functions \cup Tables \cup Writes

BindDatas ==
  [kind : Kinds, asked_secret : Maybe(Secret), asked_project : Maybe(Project), project : Project,
   token : Maybe(Token), file : Maybe(File), quota_project : Maybe(Project)]

CredentialShape ==
  [project : Maybe(Project), token : Maybe(Token), file : Maybe(File), quota_project : Maybe(Project)]

\* Credentials found by a lookup are those of a listed secret, or none at all when
\* no gcloud secret exists.
LEMMA Lookup ==
  ASSUME NEW name, NEW c \in GetGcloudCredentials(name)
  PROVE  \/ \E n \in Listed : c = secrets[n] /\ (name # None => n = name)
         \/ c = NoCredentials /\ name = None /\ Listed = {}
  BY DEF GetGcloudCredentials

\* They have the shape of GcloudCredentials.
LEMMA LookupShape ==
  ASSUME NEW name, NEW c \in GetGcloudCredentials(name)
  PROVE  c \in CredentialShape
<1>1. NoCredentials \in CredentialShape
  BY DEF NoCredentials, CredentialShape, Maybe
<1>2. ASSUME NEW n \in Listed  PROVE secrets[n] \in CredentialShape
  BY CredentialAssumption DEF Listed, CredentialShape
<1> QED  BY <1>1, <1>2, Lookup

\* Source distinguishes three cases and always yields a source.
LEMMA SourceType ==
  ASSUME NEW c, c.token \in Maybe(Token), c.file \in Maybe(File)
  PROVE  /\ Source(c) \in Sources
         /\ c.token = None /\ c.file = None => Source(c) = Adc
         /\ c.token = None /\ c.file # None => Source(c) = <<"file", c.file>> /\ c.file \in File
         /\ c.token # None => Source(c) = <<"token", c.token>>
  BY DEF Source, Sources, Maybe

\* A secret that is listed is one of those whose pairs are given.
LEMMA GivenBySecret ==
  ASSUME NEW n \in Listed
  PROVE  /\ secrets[n].project # None
            => <<"use", Source(secrets[n]), secrets[n].project>> \in Given(secrets, files, adc)
         /\ secrets[n].quota_project # None
            => <<"bill", Source(secrets[n]), secrets[n].quota_project>> \in Given(secrets, files, adc)
<1> DEFINE held == {secrets[m] : m \in Secret} \cap Credential
<1>1. secrets[n] \in held  BY DEF Listed
<1> QED  BY <1>1 DEF Given

\* The project of a service account's key is given with its path.
LEMMA GivenByKey ==
  ASSUME NEW f \in File, ServiceAccountProject(f) # None
  PROVE  <<"use", <<"file", f>>, ServiceAccountProject(f)>> \in Given(secrets, files, adc)
<1>1. /\ files[f] \in Content /\ files[f].type = "service_account"
      /\ ServiceAccountProject(f) = files[f].project_id
  BY DEF ServiceAccountProject
<1> DEFINE sources == {<<Adc, adc>>} \cup {<<<<"file", g>>, files[g]>> : g \in File}
           read == {s \in sources : s[2] \in Content}
           keys == {s \in read : s[1] # Adc /\ s[2].type = "service_account"}
           own == <<<<"file", f>>, files[f]>>
<1>2. own \in sources  OBVIOUS
<1>3. own[1] = <<"file", f>> /\ own[2] = files[f]  OBVIOUS
<1>4. own \in keys  BY <1>1, <1>2, <1>3 DEF Adc
<1>5. <<"use", own[1], own[2].project_id>> \in {<<"use", s[1], s[2].project_id>> : s \in keys}
  BY <1>4
<1> HIDE DEF keys, own
<1> QED  BY <1>1, <1>3, <1>5 DEF Given, keys, own

\* The project of the ADC is given with them.
LEMMA GivenByAdc ==
  ASSUME AdcProject # None
  PROVE  <<"use", Adc, AdcProject>> \in Given(secrets, files, adc)
<1>1. adc \in Content /\ AdcProject = ContentProject(adc)  BY DEF AdcProject
<1> DEFINE sources == {<<Adc, adc>>} \cup {<<<<"file", g>>, files[g]>> : g \in File}
           read == {s \in sources : s[2] \in Content}
           own == <<Adc, adc>>
<1>2. own[1] = Adc /\ own[2] = adc  OBVIOUS
<1>3. own \in {r \in read : r[1] = Adc}  BY <1>1, <1>2
<1>4. <<"use", Adc, ContentProject(own[2])>>
        \in {<<"use", Adc, ContentProject(s[2])>> : s \in {r \in read : r[1] = Adc}}
  BY <1>3
<1> HIDE DEF read, own
<1> QED  BY <1>1, <1>2, <1>4 DEF Given, read, own

\* The quota project of a file is given with the source it is read for.
LEMMA GivenByFile ==
  ASSUME NEW source \in Sources, source[1] # "token", FileOf(source) \in Content,
         FileOf(source).quota_project_id # None
  PROVE  <<"bill", source, FileOf(source).quota_project_id>> \in Given(secrets, files, adc)
<1> DEFINE sources == {<<Adc, adc>>} \cup {<<<<"file", g>>, files[g]>> : g \in File}
           read == {s \in sources : s[2] \in Content}
           own == <<source, FileOf(source)>>
<1>1. own \in sources
  <2>1. CASE source = Adc  BY <2>1 DEF Adc, FileOf
  <2>2. CASE source \in {<<"file", f>> : f \in File}  BY <2>2 DEF FileOf
  <2> QED  BY <2>1, <2>2 DEF Sources
<1>2. own \in read  BY <1>1
<1>3. <<"bill", own[1], own[2].quota_project_id>> \in {<<"bill", s[1], s[2].quota_project_id>> : s \in read}
  BY <1>2
<1> HIDE DEF read, own
<1> QED  BY <1>3 DEF Given, read, own

\* Given holds pairs of sources and projects.
LEMMA GivenType ==
  ASSUME NEW ss, NEW ff, NEW a
  PROVE  Given(ss, ff, a) \subseteq {"use", "bill"} \X Sources \X Project
<1> DEFINE held    == {ss[n] : n \in Secret} \cap Credential
           sources == {<<Adc, a>>} \cup {<<<<"file", f>>, ff[f]>> : f \in File}
           read    == {s \in sources : s[2] \in Content}
           keys    == {s \in read : s[1] # Adc /\ s[2].type = "service_account"}
           Pair    == {"use", "bill"} \X Sources \X Maybe(Project)
<1>1. ASSUME NEW c \in held
      PROVE  <<"use", Source(c), c.project>> \in Pair /\ <<"bill", Source(c), c.quota_project>> \in Pair
  <2>1. c \in CredentialShape  BY CredentialAssumption DEF CredentialShape
  <2>2. Source(c) \in Sources  BY <2>1, SourceType DEF CredentialShape
  <2> QED  BY <2>1, <2>2 DEF CredentialShape
<1>2. ASSUME NEW s \in read
      PROVE  /\ s[1] \in Sources
             /\ s[2].quota_project_id \in Maybe(Project) /\ s[2].project_id \in Maybe(Project)
             /\ ContentProject(s[2]) \in Maybe(Project)
  <2>1. s[1] \in Sources  BY DEF Sources
  <2>2. s[2].quota_project_id \in Maybe(Project) /\ s[2].project_id \in Maybe(Project)
    BY CredentialAssumption
  <2> QED  BY <2>1, <2>2 DEF ContentProject, FirstGiven
<1>3. Adc \in Sources  BY DEF Sources
<1>4. ASSUME NEW pair \in Pair, pair[3] # None  PROVE pair \in {"use", "bill"} \X Sources \X Project
  BY <1>4 DEF Maybe
<1>5. ASSUME NEW s \in read
      PROVE  /\ <<"bill", s[1], s[2].quota_project_id>> \in Pair
             /\ <<"use", s[1], s[2].project_id>> \in Pair
             /\ <<"use", Adc, ContentProject(s[2])>> \in Pair
  BY <1>2, <1>3
<1> DEFINE pairs == {<<"use", Source(c), c.project>> : c \in held}
                      \cup {<<"bill", Source(c), c.quota_project>> : c \in held}
                      \cup {<<"bill", s[1], s[2].quota_project_id>> : s \in read}
                      \cup {<<"use", s[1], s[2].project_id>> : s \in keys}
                      \cup {<<"use", Adc, ContentProject(s[2])>> : s \in {r \in read : r[1] = Adc}}
<1>6. keys \subseteq read /\ {r \in read : r[1] = Adc} \subseteq read  OBVIOUS
<1> HIDE DEF held, read, keys, Pair
<1>7. pairs \subseteq Pair  BY <1>1, <1>5, <1>6
<1>8. Given(ss, ff, a) = {pair \in pairs : pair[3] # None}  BY DEF Given, held, read, keys
<1> HIDE DEF pairs
<1> QED  BY <1>4, <1>7, <1>8

-----------------------------------------------------------------------------
(* Type correctness                                                        *)

Requests ==
  [kind : Maybe(Kinds), source : Sources, asked_project : Maybe(Project),
   project : Maybe(Project), billed : Maybe(Project)]

LEMMA NoRequestIsTyped == NoRequest \in Requests
  BY DEF NoRequest, Requests, Maybe, Sources, Adc

\* The project of a bind is a project or missing.
LEMMA ResolvedType ==
  ASSUME TypeOK, NEW asked \in Maybe(Project), NEW c \in CredentialShape
  PROVE  /\ ReadProject(asked, c) \in Maybe(Project)
         /\ WriteProject(c) \in Maybe(Project)
<1>1. AdcProject \in Maybe(Project)
  BY CredentialAssumption DEF AdcProject, ContentProject, FirstGiven, Maybe
<1>2. ASSUME NEW f \in File  PROVE ServiceAccountProject(f) \in Maybe(Project)
  BY CredentialAssumption DEF ServiceAccountProject, Maybe
<1>3. c.project \in Maybe(Project) /\ c.file \in Maybe(File)  BY DEF CredentialShape
<1>4. None \in Maybe(Project)  BY DEF Maybe
<1>5. CASE c.project # None
  BY <1>1, <1>3, <1>5 DEF ReadProject, WriteProject, FirstGiven
<1>6. CASE c.project = None
  <2>1. ReadProject(asked, c) \in Maybe(Project)  BY <1>1, <1>6 DEF ReadProject, FirstGiven
  <2>2. CASE c.token # None  BY <2>1, <2>2, <1>4, <1>6 DEF WriteProject, FirstGiven
  <2>3. CASE c.token = None /\ c.file # None
    <3>1. c.file \in File  BY <1>3, <2>3 DEF Maybe
    <3> QED  BY <2>1, <2>3, <3>1, <1>2, <1>6 DEF WriteProject, FirstGiven
  <2>4. CASE c.token = None /\ c.file = None
    BY <2>1, <2>4, <1>1, <1>6 DEF WriteProject, FirstGiven
  <2> QED  BY <2>2, <2>3, <2>4
<1> QED  BY <1>5, <1>6

\* What a bind stores, given that it finds a project.
LEMMA BindDataType ==
  ASSUME NEW kind \in Kinds, NEW secret \in Maybe(Secret), NEW asked \in Maybe(Project),
         NEW project \in Maybe(Project), NEW c \in CredentialShape, project # None
  PROVE  BindData(kind, secret, asked, project, c) \in BindDatas
  BY DEF BindData, BindDatas, CredentialShape, Maybe

\* The project billed is a project or missing.
LEMMA BilledType ==
  ASSUME TypeOK, NEW b \in BindDatas
  PROVE  BilledProject(b) \in Maybe(Project)
<1>1. b.quota_project \in Maybe(Project)  BY DEF BindDatas
<1>2. ASSUME FileOf(Source(b)) \in Content
      PROVE  FileOf(Source(b)).quota_project_id \in Maybe(Project)
  BY <1>2, CredentialAssumption
<1>3. None \in Maybe(Project)  BY DEF Maybe
<1> QED  BY <1>1, <1>2, <1>3 DEF BilledProject, FirstGiven

LEMMA InitType == Init => TypeOK
<1> SUFFICES ASSUME Init  PROVE TypeOK  OBVIOUS
<1>1. named \subseteq {"use", "bill"} \X Sources \X Project  BY GivenType DEF Init
<1>2. changes \in 0..MaxChanges  BY ChangesAssumption DEF Init
<1>3. attached \in [on : BOOLEAN, secret : Maybe(Secret), project : Maybe(Project),
                    alerts : Maybe(Project), service_map : Maybe(Project)]
  BY DEF Init, NotAttached, Maybe
<1>4. bound \in [Statement -> Maybe(BindDatas)]  BY DEF Init, Maybe
<1>5. sent \in Requests  BY NoRequestIsTyped DEF Init
<1> QED  BY <1>1, <1>2, <1>3, <1>4, <1>5 DEF Init, TypeOK, BindDatas, Requests, Kinds

\* A statement that is bound has a project, found or not by a lookup.
LEMMA StoreType ==
  ASSUME TypeOK, NEW s \in Statement, NEW data, Store(s, data),
         data.project # None => data \in BindDatas
  PROVE  TypeOK'
<1>1. bound' \in [Statement -> Maybe(BindDatas)]
  BY DEF Store, TypeOK, BindDatas, Kinds, Maybe
<1>2. sent' \in Requests  BY NoRequestIsTyped DEF Store
<1> QED  BY <1>1, <1>2 DEF TypeOK, Store, environment, BindDatas, Requests, Kinds, AdcValues, SecretValues, Sources

LEMMA ChangeType ==
  ASSUME TypeOK, Change, secrets' \in [Secret -> SecretValues], files' \in [File -> Maybe(Content)],
         adc' \in AdcValues
  PROVE  TypeOK'
<1>1. named' \subseteq {"use", "bill"} \X Sources \X Project
  <2>1. Given(secrets', files', adc') \subseteq {"use", "bill"} \X Sources \X Project  BY GivenType
  <2> QED  BY <2>1 DEF Change, TypeOK
<1>2. changes' \in 0..MaxChanges  BY ChangesAssumption DEF Change, TypeOK
<1>3. sent' \in Requests  BY NoRequestIsTyped DEF Change
<1> QED  BY <1>1, <1>2, <1>3 DEF TypeOK, Change, Requests, Kinds

LEMMA StepType == TypeOK /\ [Next]_vars => TypeOK'
<1> SUFFICES ASSUME TypeOK, [Next]_vars  PROVE TypeOK'  OBVIOUS
<1>1. ASSUME NEW n \in Secret, NEW value \in SecretValues, ReplaceSecret(n, value)  PROVE TypeOK'
  BY <1>1, ChangeType DEF ReplaceSecret, TypeOK
<1>2. ASSUME NEW f \in File, NEW content \in Maybe(Content), ReplaceFile(f, content)  PROVE TypeOK'
  BY <1>2, ChangeType DEF ReplaceFile, TypeOK
<1>3. ASSUME NEW content \in AdcValues, ReplaceAdc(content)  PROVE TypeOK'
  BY <1>3, ChangeType DEF ReplaceAdc, TypeOK
<1>4. ASSUME NEW secret \in Maybe(Secret), NEW project \in Maybe(Project), Attach(secret, project)
      PROVE  TypeOK'
  <2>1. sent' \in Requests  BY <1>4, NoRequestIsTyped DEF Attach
  <2> QED  BY <1>4, <2>1 DEF Attach, Options, TypeOK, environment, Requests, Kinds
<1>5. CASE Detach
  <2>1. sent' \in Requests  BY <1>5, NoRequestIsTyped DEF Detach
  <2>2. attached' \in [on : BOOLEAN, secret : Maybe(Secret), project : Maybe(Project),
                       alerts : Maybe(Project), service_map : Maybe(Project)]
    BY <1>5 DEF Detach, NotAttached, Maybe
  <2>3. bound' \in [Statement -> Maybe(BindDatas)]
    BY <1>5 DEF Detach, TypeOK, BindDatas, Kinds, Maybe
  <2> QED  BY <1>5, <2>1, <2>2, <2>3 DEF Detach, TypeOK, environment, Requests, BindDatas, Kinds
<1>6. ASSUME NEW s \in Statement, NEW kind \in Functions, NEW secret \in Maybe(Secret),
             NEW project \in Maybe(Project), BindFunction(s, kind, secret, project)
      PROVE  TypeOK'
  <2>1. PICK c \in GetGcloudCredentials(secret) :
          Store(s, BindData(kind, secret, project, ReadProject(project, c), c))
    BY <1>6 DEF BindFunction
  <2>2. c \in CredentialShape  BY LookupShape
  <2>3. ReadProject(project, c) \in Maybe(Project)  BY <2>2, ResolvedType
  <2>4. BindData(kind, secret, project, ReadProject(project, c), c).project = ReadProject(project, c)
    BY DEF BindData
  <2>5. ReadProject(project, c) # None
        => BindData(kind, secret, project, ReadProject(project, c), c) \in BindDatas
    BY <2>2, <2>3, BindDataType DEF Kinds
  <2> QED  BY <2>1, <2>4, <2>5, StoreType
<1>7. ASSUME NEW s \in Statement, NEW table \in Tables, BindTable(s, table)  PROVE TypeOK'
  <2> DEFINE asked == attached.project
             project(c) == ReadProject(TableProject(table), c)
  <2>1. PICK c \in GetGcloudCredentials(attached.secret) :
          Store(s, BindData(table, attached.secret, asked, project(c), c))
    BY <1>7 DEF BindTable
  <2>2. c \in CredentialShape  BY LookupShape
  <2>3. TableProject(table) \in Maybe(Project) /\ asked \in Maybe(Project) /\ attached.secret \in Maybe(Secret)
    BY DEF TypeOK, TableProject, Tables
  <2>4. project(c) \in Maybe(Project)  BY <2>2, <2>3, ResolvedType
  <2>5. BindData(table, attached.secret, asked, project(c), c).project = project(c)
    BY DEF BindData
  <2>6. project(c) # None => BindData(table, attached.secret, asked, project(c), c) \in BindDatas
    BY <2>2, <2>3, <2>4, BindDataType DEF Kinds
  <2> QED  BY <2>1, <2>5, <2>6, StoreType
<1>8. ASSUME NEW s \in Statement, NEW kind \in Writes, NEW secret \in Maybe(Secret), BindWrite(s, kind, secret)
      PROVE  TypeOK'
  <2>1. PICK c \in GetGcloudCredentials(secret) : Store(s, BindData(kind, secret, None, WriteProject(c), c))
    BY <1>8 DEF BindWrite
  <2>2. c \in CredentialShape /\ None \in Maybe(Project)  BY LookupShape DEF Maybe
  <2>3. WriteProject(c) \in Maybe(Project)  BY <2>2, ResolvedType
  <2>4. BindData(kind, secret, None, WriteProject(c), c).project = WriteProject(c)  BY DEF BindData
  <2>5. WriteProject(c) # None => BindData(kind, secret, None, WriteProject(c), c) \in BindDatas
    BY <2>2, <2>3, BindDataType DEF Kinds
  <2> QED  BY <2>1, <2>4, <2>5, StoreType
<1>9. ASSUME NEW s \in Statement, Execute(s)  PROVE TypeOK'
  <2>1. bound[s] \in BindDatas  BY <1>9 DEF Execute, TypeOK, BindDatas, Kinds, Maybe
  <2>2. Source(bound[s]) \in Sources  BY <2>1, SourceType DEF BindDatas
  <2>3. BilledProject(bound[s]) \in Maybe(Project)  BY <2>1, BilledType
  <2>4. bound[s].kind \in Maybe(Kinds) /\ bound[s].project \in Maybe(Project)
        /\ bound[s].asked_project \in Maybe(Project)
    BY <2>1 DEF BindDatas, Maybe
  <2>5. sent' \in Requests  BY <1>9, <2>2, <2>3, <2>4 DEF Execute, Requests
  <2> QED  BY <1>9, <2>5 DEF Execute, TypeOK, environment, Requests, Kinds
<1>10. ASSUME NEW s \in Statement, Close(s)  PROVE TypeOK'
  <2>1. sent' \in Requests  BY <1>10, NoRequestIsTyped DEF Close
  <2> QED  BY <1>10, <2>1 DEF Close, TypeOK, environment, Requests, Kinds, Maybe
<1>11. CASE UNCHANGED vars
  BY <1>11 DEF vars, TypeOK, AdcValues, SecretValues, Sources
<1> QED
  BY <1>1, <1>2, <1>3, <1>4, <1>5, <1>6, <1>7, <1>8, <1>9, <1>10, <1>11 DEF Next

\* The state of a session keeps its shape, and no statement is bound without a
\* project: every way to resolve one yields a project or throws.
THEOREM TypeCorrect == Spec => []TypeOK
  BY InitType, StepType, PTL DEF Spec

-----------------------------------------------------------------------------
(* Where requests go                                                       *)

\* What is given now has been recorded.
Present == Given(secrets, files, adc) \subseteq named

\* What a statement holds was given together, and respects what was asked.
Sound(b) ==
  /\ b.kind \in Writes => <<"use", Source(b), b.project>> \in named
  /\ b.quota_project # None => <<"bill", Source(b), b.quota_project>> \in named
  /\ b.asked_project # None => b.project = b.asked_project

Bindings == \A s \in Statement : bound[s] # None => Sound(bound[s])

\* All tables of an attachment have its project.
AlikeTables == attached.alerts = attached.project /\ attached.service_map = attached.project

\* The last request is for the project that was asked for.
ProjectIsAsked == sent.asked_project # None => sent.project = sent.asked_project

Requested ==
  /\ WritesStayHome
  /\ BillingFollowsSource
  /\ ProjectIsAsked

Inv == Present /\ Bindings /\ AlikeTables /\ Requested

\* A step that sends no request keeps Requested.
LEMMA QuietStep == sent' = NoRequest => Requested'
  BY KindAssumption
  DEF NoRequest, Requested, WritesStayHome, BillingFollowsSource, ProjectIsAsked, Writes

\* Credentials that a lookup finds bring pairs that are given.
LEMMA LookupGiven ==
  ASSUME NEW name, NEW c \in GetGcloudCredentials(name)
  PROVE  /\ c.project # None => <<"use", Source(c), c.project>> \in Given(secrets, files, adc)
         /\ c.quota_project # None
            => <<"bill", Source(c), c.quota_project>> \in Given(secrets, files, adc)
<1>1. CASE \E n \in Listed : c = secrets[n]
  <2>1. PICK n \in Listed : c = secrets[n]  BY <1>1
  <2> QED  BY <2>1, GivenBySecret
<1>2. CASE c = NoCredentials
  BY <1>2 DEF NoCredentials
<1> QED  BY <1>1, <1>2, Lookup

\* The project a write resolves is given with the source it authenticates with.  The
\* three ways to resolve it correspond to the three kinds of source.
LEMMA WriteGiven ==
  ASSUME NEW name, NEW c \in GetGcloudCredentials(name), WriteProject(c) # None
  PROVE  <<"use", Source(c), WriteProject(c)>> \in Given(secrets, files, adc)
<1>1. c \in CredentialShape  BY LookupShape
<1>2. CASE c.project # None
  <2>1. WriteProject(c) = c.project  BY <1>2 DEF WriteProject, FirstGiven
  <2> QED  BY <1>2, <2>1, LookupGiven
<1>3. CASE c.project = None /\ c.token # None
  <2>1. WriteProject(c) = None  BY <1>3 DEF WriteProject, FirstGiven
  <2> QED  BY <2>1
<1>4. CASE c.project = None /\ c.token = None /\ c.file # None
  <2>1. WriteProject(c) = ServiceAccountProject(c.file)  BY <1>4 DEF WriteProject, FirstGiven
  <2>2. Source(c) = <<"file", c.file>> /\ c.file \in File  BY <1>1, <1>4, SourceType DEF CredentialShape
  <2> QED  BY <2>1, <2>2, GivenByKey
<1>5. CASE c.project = None /\ c.token = None /\ c.file = None
  <2>1. WriteProject(c) = AdcProject  BY <1>5 DEF WriteProject, FirstGiven
  <2>2. Source(c) = Adc  BY <1>1, <1>5, SourceType DEF CredentialShape
  <2> QED  BY <2>1, <2>2, GivenByAdc
<1> QED  BY <1>2, <1>3, <1>4, <1>5

\* Bind data authenticates like the credentials it is made from.
LEMMA BindSource ==
  ASSUME NEW kind, NEW secret, NEW asked, NEW project, NEW c
  PROVE  LET b == BindData(kind, secret, asked, project, c)
         IN /\ Source(b) = Source(c)
            /\ b.kind = kind /\ b.asked_project = asked /\ b.project = project
            /\ b.quota_project = c.quota_project
            /\ b.asked_secret = secret /\ b.token = c.token /\ b.file = c.file
<1> DEFINE b == BindData(kind, secret, asked, project, c)
<1>1. /\ b.token = c.token /\ b.file = c.file /\ b.quota_project = c.quota_project
      /\ b.kind = kind /\ b.asked_project = asked /\ b.project = project /\ b.asked_secret = secret
  BY DEF BindData
<1> HIDE DEF b
<1>2. Source(b) = Source(c)  BY <1>1 DEF Source
<1> QED  BY <1>1, <1>2 DEF b

\* Bind data made from found credentials bills a project given with its source.
LEMMA BillGiven ==
  ASSUME Inv, NEW name, NEW c \in GetGcloudCredentials(name),
         NEW kind, NEW secret, NEW asked, NEW project
  PROVE  LET b == BindData(kind, secret, asked, project, c)
         IN b.quota_project # None => <<"bill", Source(b), b.quota_project>> \in named
<1> DEFINE b == BindData(kind, secret, asked, project, c)
<1>1. Source(b) = Source(c) /\ b.quota_project = c.quota_project  BY BindSource
<1>2. c.quota_project # None => <<"bill", Source(c), c.quota_project>> \in named
  BY LookupGiven DEF Inv, Present
<1> HIDE DEF b
<1>3. b.quota_project # None => <<"bill", Source(b), b.quota_project>> \in named
  BY <1>1, <1>2
<1> QED  BY <1>3 DEF b

\* A stored bind that is sound keeps the invariant.
LEMMA StoreInv ==
  ASSUME TypeOK, Inv, NEW s \in Statement, NEW data, Store(s, data), Sound(data)
  PROVE  Inv'
<1>1. named' = named /\ secrets' = secrets /\ files' = files /\ adc' = adc /\ attached' = attached
  BY DEF Store, environment
<1>2. Bindings'
  BY <1>1 DEF Inv, Bindings, Sound, Store, TypeOK
<1>3. Requested'  BY QuietStep DEF Store
<1> QED  BY <1>1, <1>2, <1>3 DEF Inv, Present, AlikeTables

\* A change of secrets or files only adds to what is recorded.
LEMMA ChangeInv ==
  ASSUME Inv, Change
  PROVE  Inv'
<1>1. named \subseteq named' /\ Present'  BY DEF Change, Present
<1>2. Bindings'  BY <1>1 DEF Change, Inv, Bindings, Sound
<1>3. Requested'  BY QuietStep DEF Change
<1> QED  BY <1>1, <1>2, <1>3 DEF Inv, AlikeTables, Change

LEMMA InitInv == Init => Inv
<1> SUFFICES ASSUME Init  PROVE Inv  OBVIOUS
<1>1. Present /\ Bindings /\ AlikeTables  BY DEF Init, Present, Bindings, AlikeTables, NotAttached
<1>2. Requested
  BY KindAssumption DEF Init, NoRequest, Requested, WritesStayHome, BillingFollowsSource, ProjectIsAsked, Writes
<1> QED  BY <1>1, <1>2 DEF Inv

LEMMA StepInv == TypeOK /\ Inv /\ [Next]_vars => Inv'
<1> SUFFICES ASSUME TypeOK, Inv, [Next]_vars  PROVE Inv'  OBVIOUS
<1>1. ASSUME NEW n \in Secret, NEW value \in SecretValues, ReplaceSecret(n, value)  PROVE Inv'
  BY <1>1, ChangeInv DEF ReplaceSecret
<1>2. ASSUME NEW f \in File, NEW content \in Maybe(Content), ReplaceFile(f, content)  PROVE Inv'
  BY <1>2, ChangeInv DEF ReplaceFile
<1>3. ASSUME NEW content \in AdcValues, ReplaceAdc(content)  PROVE Inv'
  BY <1>3, ChangeInv DEF ReplaceAdc
<1>4. ASSUME NEW secret \in Maybe(Secret), NEW project \in Maybe(Project), Attach(secret, project)
      PROVE  Inv'
  <2>1. Requested'  BY <1>4, QuietStep DEF Attach
  <2>2. AlikeTables'  BY <1>4 DEF Attach, Options, AlikeTables
  <2> QED  BY <1>4, <2>1, <2>2 DEF Attach, Inv, Present, Bindings, Sound, environment
<1>5. CASE Detach
  <2>1. Requested'  BY <1>5, QuietStep DEF Detach
  <2>2. AlikeTables'  BY <1>5 DEF Detach, NotAttached, AlikeTables
  <2>3. Bindings'  BY <1>5 DEF Detach, Inv, Bindings, Sound, environment
  <2> QED  BY <1>5, <2>1, <2>2, <2>3 DEF Detach, Inv, Present, environment
<1>6. ASSUME NEW s \in Statement, NEW kind \in Functions, NEW secret \in Maybe(Secret),
             NEW project \in Maybe(Project), BindFunction(s, kind, secret, project)
      PROVE  Inv'
  <2>1. PICK c \in GetGcloudCredentials(secret) :
          Store(s, BindData(kind, secret, project, ReadProject(project, c), c))
    BY <1>6 DEF BindFunction
  <2> DEFINE b == BindData(kind, secret, project, ReadProject(project, c), c)
  <2>2. b.kind \notin Writes  BY BindSource DEF Functions, Writes
  <2>3. b.quota_project # None => <<"bill", Source(b), b.quota_project>> \in named
    BY BillGiven
  <2>4. b.asked_project # None => b.project = b.asked_project
    BY BindSource DEF ReadProject, FirstGiven
  <2>5. Sound(b)  BY <2>2, <2>3, <2>4 DEF Sound
  <2> QED  BY <2>1, <2>5, StoreInv
<1>7. ASSUME NEW s \in Statement, NEW table \in Tables, BindTable(s, table)  PROVE Inv'
  <2>1. PICK c \in GetGcloudCredentials(attached.secret) :
          Store(s, BindData(table, attached.secret, attached.project,
                            ReadProject(TableProject(table), c), c))
    BY <1>7 DEF BindTable
  <2> DEFINE b == BindData(table, attached.secret, attached.project,
                           ReadProject(TableProject(table), c), c)
  <2>2. b.kind \notin Writes  BY BindSource DEF Tables, Writes
  <2>3. b.quota_project # None => <<"bill", Source(b), b.quota_project>> \in named
    BY BillGiven
  <2>4. TableProject(table) = attached.project
    BY DEF TableProject, Inv, AlikeTables, Tables
  <2>5. b.asked_project # None => b.project = b.asked_project
    BY <2>4, BindSource DEF ReadProject, FirstGiven
  <2>6. Sound(b)  BY <2>2, <2>3, <2>5 DEF Sound
  <2> QED  BY <2>1, <2>6, StoreInv
<1>8. ASSUME NEW s \in Statement, NEW kind \in Writes, NEW secret \in Maybe(Secret), BindWrite(s, kind, secret)
      PROVE  Inv'
  <2>1. PICK c \in GetGcloudCredentials(secret) : Store(s, BindData(kind, secret, None, WriteProject(c), c))
    BY <1>8 DEF BindWrite
  <2> DEFINE b == BindData(kind, secret, None, WriteProject(c), c)
  <2>2. b.project # None  BY <2>1 DEF Store
  <2>3. WriteProject(c) # None  BY <2>2, BindSource
  <2>4. <<"use", Source(b), b.project>> \in named
    BY <2>3, BindSource, WriteGiven DEF Inv, Present
  <2>5. b.quota_project # None => <<"bill", Source(b), b.quota_project>> \in named
    BY BillGiven
  <2>6. b.asked_project = None  BY BindSource
  <2>7. Sound(b)  BY <2>4, <2>5, <2>6 DEF Sound
  <2> QED  BY <2>1, <2>7, StoreInv
<1>9. ASSUME NEW s \in Statement, Execute(s)  PROVE Inv'
  <2>1. /\ bound[s] # None /\ bound[s] \in BindDatas /\ Sound(bound[s])
        /\ Source(bound[s])[1] # "token" => FileOf(Source(bound[s])) \in Content
    BY <1>9 DEF Execute, TypeOK, BindDatas, Kinds, Maybe, Inv, Bindings
  <2>2. Source(bound[s]) \in Sources  BY <2>1, SourceType DEF BindDatas
  <2>3. /\ named' = named
        /\ sent'.kind = bound[s].kind /\ sent'.source = Source(bound[s])
        /\ sent'.asked_project = bound[s].asked_project /\ sent'.project = bound[s].project
        /\ sent'.billed = BilledProject(bound[s])
    BY <1>9 DEF Execute, environment
  <2>4. WritesStayHome'  BY <2>1, <2>3 DEF WritesStayHome, Sound
  <2>5. ProjectIsAsked'  BY <2>1, <2>3 DEF ProjectIsAsked, Sound
  <2>6. BillingFollowsSource'
    <3>1. SUFFICES ASSUME BilledProject(bound[s]) # None
                   PROVE  <<"bill", Source(bound[s]), BilledProject(bound[s])>> \in named
      BY <2>3 DEF BillingFollowsSource
    <3>2. CASE bound[s].quota_project # None
      <4>1. BilledProject(bound[s]) = bound[s].quota_project
        BY <3>1, <3>2 DEF BilledProject, FirstGiven
      <4> QED  BY <2>1, <3>2, <4>1 DEF Sound
    <3>3. CASE bound[s].quota_project = None
      <4>1. /\ FileOf(Source(bound[s])) \in Content
            /\ BilledProject(bound[s]) = FileOf(Source(bound[s])).quota_project_id
        BY <3>1, <3>3 DEF BilledProject, FirstGiven
      <4>2. Source(bound[s])[1] # "token"
        BY <4>1, CredentialAssumption DEF FileOf
      <4> QED  BY <2>2, <3>1, <4>1, <4>2, GivenByFile DEF Inv, Present
    <3> QED  BY <3>2, <3>3
  <2>7. Present' /\ AlikeTables' /\ Bindings'
    BY <1>9 DEF Execute, environment, Inv, Present, AlikeTables, Bindings, Sound
  <2> QED  BY <2>4, <2>5, <2>6, <2>7 DEF Inv, Requested
<1>10. ASSUME NEW s \in Statement, Close(s)  PROVE Inv'
  <2>1. Requested'  BY <1>10, QuietStep DEF Close
  <2>2. Bindings'  BY <1>10 DEF Close, environment, TypeOK, Inv, Bindings, Sound
  <2> QED  BY <1>10, <2>1, <2>2 DEF Close, environment, Inv, Present, AlikeTables
<1>11. CASE UNCHANGED vars
  BY <1>11
  DEF vars, Inv, Present, AlikeTables, Bindings, Sound, Requested, WritesStayHome,
      BillingFollowsSource, ProjectIsAsked
<1> QED
  BY <1>1, <1>2, <1>3, <1>4, <1>5, <1>6, <1>7, <1>8, <1>9, <1>10, <1>11 DEF Next

\* A write goes only to a project that its credentials were given with, for any
\* number of replaced secrets, rewritten keys and logins between bind and execution.
THEOREM WritesStayWithTheirCredentials == Spec => []WritesStayHome
<1>1. Inv => WritesStayHome  BY DEF Inv, Requested
<1> QED  BY <1>1, InitType, StepType, InitInv, StepInv, PTL DEF Spec

\* No request is billed to a project that its source of tokens was not given with.
THEOREM BillingStaysWithItsSource == Spec => []BillingFollowsSource
<1>1. Inv => BillingFollowsSource  BY DEF Inv, Requested
<1> QED  BY <1>1, InitType, StepType, InitInv, StepInv, PTL DEF Spec

-----------------------------------------------------------------------------
(* The secret asked for                                                    *)

\* What Store binds is what a lookup of the asked secret finds at that moment.
LEMMA StoreAsks ==
  ASSUME TypeOK, NEW s \in Statement, NEW kind, NEW secret \in Maybe(Secret), NEW asked, NEW project,
         NEW c \in GetGcloudCredentials(secret), Store(s, BindData(kind, secret, asked, project, c)),
         NEW t \in Statement, bound'[t] \notin {bound[t], None}
  PROVE  BindsWhatIsAsked(t)
<1> DEFINE b == BindData(kind, secret, asked, project, c)
<1>1. t = s /\ bound'[t] = b  BY DEF Store, TypeOK
<1>2. /\ b.token = c.token /\ b.file = c.file /\ b.quota_project = c.quota_project
      /\ b.asked_secret = secret
  BY BindSource
<1> HIDE DEF b
<1>3. CASE secret # None
  <2>1. secret \in Listed /\ c = secrets[secret]  BY <1>3, Lookup
  <2> QED  BY <1>1, <1>2, <2>1 DEF BindsWhatIsAsked
<1>4. CASE secret = None
  <2>1. IF Listed = {} THEN c = NoCredentials ELSE \E n \in Listed : c = secrets[n]
    BY <1>4 DEF GetGcloudCredentials
  <2> QED  BY <1>1, <1>2, <1>4, <2>1 DEF BindsWhatIsAsked
<1> QED  BY <1>3, <1>4

\* What a statement, or the attachment it reads, asks for is what it uses: only binding
\* puts new data into a statement, and every request is for the project asked for.
THEOREM AskedIsUsedAlways == Spec => AskedIsUsed
<1>1. TypeOK /\ [Next]_vars => [BindStep]_vars
  <2> SUFFICES ASSUME TypeOK, [Next]_vars, NEW t \in Statement, bound'[t] \notin {bound[t], None}
               PROVE  BindsWhatIsAsked(t)
    BY DEF BindStep
  <2>1. ASSUME NEW s \in Statement, NEW kind \in Functions, NEW secret \in Maybe(Secret),
               NEW project \in Maybe(Project), BindFunction(s, kind, secret, project)
        PROVE  BindsWhatIsAsked(t)
    <3>1. PICK c \in GetGcloudCredentials(secret) :
            Store(s, BindData(kind, secret, project, ReadProject(project, c), c))
      BY <2>1 DEF BindFunction
    <3> QED  BY <3>1, StoreAsks
  <2>2. ASSUME NEW s \in Statement, NEW table \in Tables, BindTable(s, table)  PROVE BindsWhatIsAsked(t)
    <3>1. PICK c \in GetGcloudCredentials(attached.secret) :
            Store(s, BindData(table, attached.secret, attached.project,
                              ReadProject(TableProject(table), c), c))
      BY <2>2 DEF BindTable
    <3>2. attached.secret \in Maybe(Secret)  BY DEF TypeOK
    <3> QED  BY <3>1, <3>2, StoreAsks
  <2>3. ASSUME NEW s \in Statement, NEW kind \in Writes, NEW secret \in Maybe(Secret), BindWrite(s, kind, secret)
        PROVE  BindsWhatIsAsked(t)
    <3>1. PICK c \in GetGcloudCredentials(secret) : Store(s, BindData(kind, secret, None, WriteProject(c), c))
      BY <2>3 DEF BindWrite
    <3> QED  BY <3>1, StoreAsks
  <2>4. bound' = bound => bound'[t] = bound[t]  OBVIOUS
  <2>5. CASE Detach
    BY <2>5 DEF Detach
  <2>6. ASSUME NEW s \in Statement, Close(s)  PROVE FALSE
    BY <2>6 DEF Close, TypeOK
  <2>7. ASSUME \/ \E n \in Secret, value \in SecretValues : ReplaceSecret(n, value)
               \/ \E f \in File, content \in Maybe(Content) : ReplaceFile(f, content)
               \/ \E content \in AdcValues : ReplaceAdc(content)
               \/ \E secret \in Maybe(Secret), project \in Maybe(Project) : Attach(secret, project)
               \/ \E s \in Statement : Execute(s)
               \/ UNCHANGED vars
        PROVE  FALSE
    BY <2>4, <2>7 DEF ReplaceSecret, ReplaceFile, ReplaceAdc, Change, Attach, Execute, vars
  <2> QED  BY <2>1, <2>2, <2>3, <2>5, <2>6, <2>7 DEF Next
<1>2. TypeOK /\ Inv /\ [Next]_vars => [BindStep /\ ProjectStep]_vars
  <2> SUFFICES ASSUME TypeOK, Inv, [Next]_vars PROVE [BindStep /\ ProjectStep]_vars  OBVIOUS
  <2>1. ProjectStep  BY StepInv DEF Inv, Requested, ProjectIsAsked, ProjectStep
  <2> QED  BY <1>1, <2>1
<1> QED  BY <1>2, InitType, StepType, InitInv, StepInv, PTL DEF Spec, AskedIsUsed
=============================================================================
