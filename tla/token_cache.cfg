CONSTANTS
  t1 = t1
  t2 = t2
  read = read
  write = write
  Thread <- MCThread
  Config <- MCConfig
  Static = Static
  Margin = 2
  MaxDelay = 2
  Lifetimes <- MCLifetimes
  SameSecond = FALSE
  MaxTime = 2
  MaxTokens = 2
  MaxLogins = 2

SPECIFICATION Spec

SYMMETRY MCSymmetry

INVARIANTS
  TypeOK
  TokenMatchesConfig
  UsableEntryIsUnexpired
  NoReplayOfOldLogin
  RejectedTokenIsNotResent
