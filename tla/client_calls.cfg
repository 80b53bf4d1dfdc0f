CONSTANTS
  RetryBudgets <- MCRetryBudgets
  RetryAfter <- MCRetryAfter
  NoAdvice = NoAdvice

SPECIFICATION FairSpec

INVARIANTS
  TypeOK
  AtMostOnceWrite
  BoundedEffort
  CancelStopsRetries

PROPERTIES
  UnwarnedFailureIsDefinite
  CallTerminates
  KeepsRemoteCall
