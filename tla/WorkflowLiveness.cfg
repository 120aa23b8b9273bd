SPECIFICATION FairSpec
CONSTANTS
  N = 2
  Workers = {w1, w2}
  Classes <- MCClasses
  SideEffect = {1}
  Declared <- MCDeclared
  MaxRetries <- MCOneRetry
  RetryOn <- MCRetryOn
  Backoff = {}
  Compensated = {1}
  Unresolvable = {}
  Revocable = FALSE
  Faults = FALSE
PROPERTIES CallsReturn AttemptsConclude
