SPECIFICATION Spec
CONSTANTS
  N = 1
  Workers = {w1, w2}
  Classes <- MCClasses
  SideEffect = {}
  Declared <- MCDeclared
  MaxRetries <- MCMaxRetries
  RetryOn <- MCRetryOn
  Backoff = {}
  Compensated = {}
  Unresolvable = {}
  Revocable = FALSE
  Faults = FALSE
PROPERTIES FreshLeaseNotReplayed
