------------------------------ MODULE Binding -------------------------------
(***************************************************************************)
(* Which credentials and which project a statement uses.                   *)
(*                                                                         *)
(* A statement is bound once: GetGcloudCredentials picks a secret, the     *)
(* project is resolved, and both are kept in the bind data.  It may be     *)
(* executed later, and more than once (PREPARE), or run for a long time.   *)
(* Its tokens are asked for at every call (TokenCache), from the file that *)
(* is there by then.  Meanwhile secrets are replaced and dropped, key      *)
(* files rewritten, and the user logs in again.                            *)
(*                                                                         *)
(* An attachment keeps the name of a secret, not its value, and resolves   *)
(* it whenever one of its tables is bound.                                 *)
(***************************************************************************)
EXTENDS Naturals

CONSTANTS
  Statement,  \* statements of the session
  Secret,     \* names of secrets
  Project,    \* projects
  Token,      \* values of TOKEN
  File,       \* paths given as CREDENTIALS
  Credential, \* the GcloudCredentials that secrets hold
  Content,    \* the contents of credentials files
  Foreign,    \* a secret of another type
  Broken,     \* GOOGLE_APPLICATION_CREDENTIALS points at no file
  None,       \* an empty string: not given
  MaxChanges  \* bound on the changes of secrets and files in a session

Maybe(S) == S \cup {None}

ASSUME CredentialAssumption ==
  /\ None \notin Project \cup Token \cup File \cup Secret \cup Content \cup Credential
  /\ Credential \subseteq [project : Maybe(Project), token : Maybe(Token), file : Maybe(File),
                           quota_project : Maybe(Project)]
  /\ Content \subseteq [type : {"authorized_user", "service_account"},
                        project_id : Maybe(Project), quota_project_id : Maybe(Project)]

\* The table functions: read_gcloud_logs and read_gcloud_metrics, which treat secrets
\* and projects alike, and read_gcloud_service_dependencies.
Functions == {"read", "read_service_map"}

\* The tables of an attachment, with one name for the two of the alerts schema.
Tables == {"entries", "alerts", "dependencies"}

\* send_gcloud_logs and send_gcloud_metrics, which treat secrets and projects alike.
Writes == {"send"}

ServiceMap == {"dependencies", "read_service_map"}

ASSUME ChangesAssumption == MaxChanges \in Nat

ASSUME KindAssumption == None \notin Functions \cup Tables \cup Writes

ASSUME UnusableAssumption == Foreign \notin Maybe(Credential) /\ Broken \notin Maybe(Content)

VARIABLES
  secrets,   \* the secret of each name
  files,     \* what is at each path
  adc,       \* what is at the path of the Application Default Credentials
  changes,   \* how often one of these was changed
  attached,  \* the options of the attachment (GcloudAttachOptions)
  bound,     \* the bind data of each statement
  sent,      \* the request the last step sent, if it sent one
  named      \* the projects that were ever given together with a source of tokens

environment == <<secrets, files, adc, changes, named>>
vars == <<secrets, files, adc, changes, attached, bound, sent, named>>

FirstGiven(a, b) == IF a # None THEN a ELSE b

\* Where GetGcloudAccessToken gets tokens for such credentials.
Adc == <<"adc", None>>

Source(c) ==
  CASE c.token # None                   -> <<"token", c.token>>
    [] c.token = None /\ c.file # None  -> <<"file", c.file>>
    [] OTHER                            -> Adc

-----------------------------------------------------------------------------
(* Projects                                                                *)

ContentProject(content) == FirstGiven(content.quota_project_id, content.project_id)

\* TryDiscoverAdcProject.
AdcProject == IF adc \in Content THEN ContentProject(adc) ELSE None

\* TryDiscoverServiceAccountProject.
ServiceAccountProject(f) ==
  IF files[f] \in Content /\ files[f].type = "service_account" THEN files[f].project_id ELSE None

\* ResolveResourceNames, ResolveProject and their like: a read falls back on the
\* project of the ADC, whatever it authenticates with.
ReadProject(asked, c) == FirstGiven(asked, FirstGiven(c.project, AdcProject))

\* Fault: the project of the ADC serves every source.
WriteProject_Borrowed(c) == FirstGiven(c.project, AdcProject)

\* ResolveProject of the senders: with an explicit source the project must come
\* from the secret or from the key.
WriteProject(c) ==
  LET own == CASE c.token # None                  -> None
               [] c.token = None /\ c.file # None -> ServiceAccountProject(c.file)
               [] OTHER                           -> AdcProject
  IN FirstGiven(c.project, own)

-----------------------------------------------------------------------------
(* Secrets                                                                 *)

Listed == {n \in Secret : secrets[n] \in Credential}

NoCredentials == [project |-> None, token |-> None, file |-> None, quota_project |-> None]

\* The credentials for a secret name, empty if the lookup throws.  Without a name it
\* is a gcloud secret, the first in DuckDB's order, which is left open here.
GetGcloudCredentials(name) ==
  IF name # None
  THEN {secrets[n] : n \in Listed \cap {name}}
  ELSE IF Listed = {} THEN {NoCredentials} ELSE {secrets[n] : n \in Listed}

\* The pairs of a source of tokens and a project, to use or to bill, that the
\* secrets ss, the key files ff and the ADC file a state together.
Given(ss, ff, a) ==
  LET held    == {ss[n] : n \in Secret} \cap Credential
      sources == {<<Adc, a>>} \cup {<<<<"file", f>>, ff[f]>> : f \in File}
      read    == {s \in sources : s[2] \in Content}
      keys    == {s \in read : s[1] # Adc /\ s[2].type = "service_account"}
      pairs   == {<<"use", Source(c), c.project>> : c \in held}
                   \cup {<<"bill", Source(c), c.quota_project>> : c \in held}
                   \cup {<<"bill", s[1], s[2].quota_project_id>> : s \in read}
                   \cup {<<"use", s[1], s[2].project_id>> : s \in keys}
                   \cup {<<"use", Adc, ContentProject(s[2])>> : s \in {r \in read : r[1] = Adc}}
  IN {pair \in pairs : pair[3] # None}

NoRequest == [kind |-> None, source |-> Adc, asked_project |-> None, project |-> None, billed |-> None]

\* A change happens at any moment; named keeps what was ever given.
Change ==
  /\ changes < MaxChanges
  /\ changes' = changes + 1
  /\ named' = named \cup Given(secrets', files', adc')
  /\ sent' = NoRequest
  /\ UNCHANGED <<attached, bound>>

\* CREATE OR REPLACE SECRET and DROP SECRET.
ReplaceSecret(n, value) ==
  /\ secrets' = [secrets EXCEPT ![n] = value]
  /\ UNCHANGED <<files, adc>>
  /\ Change

\* A key file is written or removed.
ReplaceFile(f, content) ==
  /\ files' = [files EXCEPT ![f] = content]
  /\ UNCHANGED <<secrets, adc>>
  /\ Change

\* gcloud auth application-default login, set-quota-project, revoke; a change of
\* GOOGLE_APPLICATION_CREDENTIALS.
ReplaceAdc(content) ==
  /\ adc' = content
  /\ UNCHANGED <<secrets, files>>
  /\ Change

-----------------------------------------------------------------------------
(* Attachments                                                             *)

NotAttached == [on |-> FALSE, secret |-> None, project |-> None, alerts |-> None, service_map |-> None]

\* Fault: the settings of the alerts are left without the project.
Options_NoAlerts(secret, project) ==
  [on |-> TRUE, secret |-> secret, project |-> project, alerts |-> None, service_map |-> project]

\* The options an attachment keeps: the alerts and the service map have a copy of
\* the project in their settings.
Options(secret, project) ==
  [on |-> TRUE, secret |-> secret, project |-> project, alerts |-> project, service_map |-> project]

\* ATTACH looks the secret up, so that a bad name fails, and keeps the name.
Attach(secret, project) ==
  /\ ~attached.on
  /\ GetGcloudCredentials(secret) # {}
  /\ attached' = Options(secret, project)
  /\ sent' = NoRequest
  /\ UNCHANGED <<environment, bound>>

\* DETACH.  A statement on its tables cannot be executed any more.
Detach ==
  /\ attached.on
  /\ attached' = NotAttached
  /\ bound' = [s \in Statement |-> IF bound[s] # None /\ bound[s].kind \in Tables THEN None ELSE bound[s]]
  /\ sent' = NoRequest
  /\ UNCHANGED environment

-----------------------------------------------------------------------------
(* Statements                                                              *)

\* The bind data: the project and the credentials.  asked_secret and asked_project
\* are what the user wrote, in the statement or in ATTACH.
BindData(kind, asked_secret, asked_project, project, c) ==
  [kind |-> kind, asked_secret |-> asked_secret, asked_project |-> asked_project,
   project |-> project, token |-> c.token, file |-> c.file, quota_project |-> c.quota_project]

\* Fault: a missing project goes unnoticed.
Store_Unchecked(s, data) ==
  /\ bound[s] = None
  /\ bound' = [bound EXCEPT ![s] = data]
  /\ sent' = NoRequest
  /\ UNCHANGED <<environment, attached>>

\* A bind stores its data.  Without a project it throws, and nothing is bound.
Store(s, data) ==
  /\ bound[s] = None
  /\ data.project # None
  /\ bound' = [bound EXCEPT ![s] = data]
  /\ sent' = NoRequest
  /\ UNCHANGED <<environment, attached>>

\* A table function.  An explicit list of resource names stands for the project.
BindFunction(s, kind, secret, project) ==
  \E c \in GetGcloudCredentials(secret) :
    Store(s, BindData(kind, secret, project, ReadProject(project, c), c))

\* The project in the settings a table is made with.
TableProject(table) ==
  CASE table = "entries"      -> attached.project
    [] table = "alerts"       -> attached.alerts
    [] table = "dependencies" -> attached.service_map

\* GetScanFunction of a table of the attachment.
BindTable(s, table) ==
  /\ attached.on
  /\ \E c \in GetGcloudCredentials(attached.secret) :
       Store(s, BindData(table, attached.secret, attached.project,
                         ReadProject(TableProject(table), c), c))

\* A sender takes its project from the credentials alone.
BindWrite(s, kind, secret) ==
  \E c \in GetGcloudCredentials(secret) :
    Store(s, BindData(kind, secret, None, WriteProject(c), c))

\* The file behind a source of tokens.
FileOf(source) ==
  CASE source[1] = "token" -> None
    [] source[1] = "file"  -> files[source[2]]
    [] source[1] = "adc"   -> adc

\* Fault: a supplied token is billed like the ADC.
BilledProject_Adc(b) ==
  LET content == IF Source(b)[1] = "file" THEN FileOf(Source(b)) ELSE adc
  IN IF b.kind \in ServiceMap THEN None
     ELSE FirstGiven(b.quota_project, IF content \in Content THEN content.quota_project_id ELSE None)

\* x-goog-user-project: the QUOTA_PROJECT of the secret, else of the file the token
\* is minted from.  The service map sends none.
BilledProject(b) ==
  LET content == FileOf(Source(b))
  IN IF b.kind \in ServiceMap THEN None
     ELSE FirstGiven(b.quota_project, IF content \in Content THEN content.quota_project_id ELSE None)

\* The statement runs and sends a request.  Without a file to mint from, the call
\* fails and sends none.
Execute(s) ==
  /\ bound[s] # None
  /\ Source(bound[s])[1] # "token" => FileOf(Source(bound[s])) \in Content
  /\ sent' = [kind |-> bound[s].kind, source |-> Source(bound[s]),
              asked_project |-> bound[s].asked_project,
              project |-> bound[s].project, billed |-> BilledProject(bound[s])]
  /\ UNCHANGED <<environment, attached, bound>>

\* The statement is closed, or DuckDB is about to bind it again.
Close(s) ==
  /\ bound[s] # None
  /\ bound' = [bound EXCEPT ![s] = None]
  /\ sent' = NoRequest
  /\ UNCHANGED <<environment, attached>>

-----------------------------------------------------------------------------
SecretValues == Maybe(Credential) \cup {Foreign}
AdcValues == Maybe(Content) \cup {Broken}

\* A session starts among whatever secrets and files there are.
Init ==
  /\ secrets \in [Secret -> SecretValues]
  /\ files \in [File -> Maybe(Content)]
  /\ adc \in AdcValues
  /\ changes = 0
  /\ attached = NotAttached
  /\ bound = [s \in Statement |-> None]
  /\ sent = NoRequest
  /\ named = Given(secrets, files, adc)

Next ==
  \/ \E n \in Secret, value \in SecretValues : ReplaceSecret(n, value)
  \/ \E f \in File, content \in Maybe(Content) : ReplaceFile(f, content)
  \/ \E content \in AdcValues : ReplaceAdc(content)
  \/ \E secret \in Maybe(Secret), project \in Maybe(Project) : Attach(secret, project)
  \/ Detach
  \/ \E s \in Statement, kind \in Functions, secret \in Maybe(Secret), project \in Maybe(Project) :
       BindFunction(s, kind, secret, project)
  \/ \E s \in Statement, table \in Tables : BindTable(s, table)
  \/ \E s \in Statement, kind \in Writes, secret \in Maybe(Secret) : BindWrite(s, kind, secret)
  \/ \E s \in Statement : Execute(s) \/ Close(s)

Spec == Init /\ [][Next]_vars

-----------------------------------------------------------------------------
(* Properties                                                              *)

Sources == {<<"token", t>> : t \in Token} \cup {<<"file", f>> : f \in File} \cup {Adc}

\* The state has the shape of the code's structures, and what is bound has a project.
TypeOK ==
  /\ secrets \in [Secret -> SecretValues]
  /\ files \in [File -> Maybe(Content)]
  /\ adc \in AdcValues
  /\ changes \in 0..MaxChanges
  /\ attached \in [on : BOOLEAN, secret : Maybe(Secret), project : Maybe(Project),
                   alerts : Maybe(Project), service_map : Maybe(Project)]
  /\ bound \in [Statement -> Maybe(
       [kind : Functions \cup Tables \cup Writes, asked_secret : Maybe(Secret),
        asked_project : Maybe(Project), project : Project, token : Maybe(Token),
        file : Maybe(File), quota_project : Maybe(Project)])]
  /\ sent \in [kind : Maybe(Functions \cup Tables \cup Writes), source : Sources,
               asked_project : Maybe(Project), project : Maybe(Project), billed : Maybe(Project)]
  /\ named \subseteq {"use", "bill"} \X Sources \X Project

\* A write goes only to a project that was given together with the source of its
\* tokens: in one secret, in the key file itself, or in the ADC if those are what it
\* authenticates with.  It never authenticates one principal and writes to the
\* project of another (ResolveProject, send_logs.cpp:113), however secrets, keys and
\* logins change between bind and execution.
WritesStayHome == sent.kind \in Writes => <<"use", sent.source, sent.project>> \in named

\* The quota project a request names was given with the source of its tokens, too: a
\* supplied token is not billed to whoever logged in last (GetGcloudAccessToken).
BillingFollowsSource == sent.billed # None => <<"bill", sent.source, sent.billed>> \in named

\* Statement s is bound with what the secret it asks for holds now, or without a
\* name with what some gcloud secret holds, or with nothing if there is none.
BindsWhatIsAsked(s) ==
  LET holds(c) == /\ bound'[s].token = c.token /\ bound'[s].file = c.file
                  /\ bound'[s].quota_project = c.quota_project
  IN \/ /\ bound'[s].asked_secret \in Listed
        /\ holds(secrets[bound'[s].asked_secret])
     \/ /\ bound'[s].asked_secret = None
        /\ IF Listed = {} THEN holds(NoCredentials) ELSE \E n \in Listed : holds(secrets[n])

BindStep == \A s \in Statement : bound'[s] \notin {bound[s], None} => BindsWhatIsAsked(s)
ProjectStep == sent'.asked_project # None => sent'.project = sent'.asked_project

\* What is asked for is what is used, by each of an attachment's tables.  A statement
\* binds what the secret it asked for holds at that moment: not what it held when the
\* attachment was made, not another secret when it is gone, and no ADC when some
\* gcloud secret exists (gcloud_catalog.cpp:442).  And it reads the project it or the
\* attachment asked for, whatever the secret and the ADC say.
AskedIsUsed == [][BindStep /\ ProjectStep]_vars
=============================================================================
