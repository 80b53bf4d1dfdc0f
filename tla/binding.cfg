CONSTANTS
  None = None
  Foreign = Foreign
  Broken = Broken
  p1 = p1
  p2 = p2
  t1 = t1
  f1 = f1
  Statement = {s1}
  Secret = {n1, n2}
  Project = {p1, p2}
  Token = {t1}
  File = {f1}
  MaxChanges = 1
  Credential <- MCCredential
  Content <- MCContent

SYMMETRY Names

SPECIFICATION Spec

INVARIANTS
  TypeOK
  WritesStayHome
  BillingFollowsSource

PROPERTIES
  AskedIsUsed
