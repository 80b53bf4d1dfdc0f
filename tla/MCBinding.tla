----------------------------- MODULE MCBinding ------------------------------
(***************************************************************************)
(* Binding with two secrets, two projects and one source of tokens of each *)
(* kind: secrets with and without a project, with a token, a key file, and *)
(* both; a user's and a service account's file.                            *)
(***************************************************************************)
EXTENDS Binding, TLC

CONSTANTS p1, p2, t1, f1

Cred(project, token, file, quota_project) ==
  [project |-> project, token |-> token, file |-> file, quota_project |-> quota_project]

MCCredential ==
  {Cred(p1, None, None, None), Cred(None, t1, None, None), Cred(p2, t1, f1, p1),
   Cred(None, None, f1, None)}

MCContent ==
  {[type |-> "authorized_user", project_id |-> None, quota_project_id |-> p1],
   [type |-> "service_account", project_id |-> p2, quota_project_id |-> None]}

Names == Permutations(Secret)
=============================================================================
