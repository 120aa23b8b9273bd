SPECIFICATION Spec
CONSTANTS
  N = 3
  Workers = {w1, w2}
  Classes <- MCClasses
  SideEffect = {1}
  Declared <- MCDeclared
  MaxRetries <- MCMaxRetries
  RetryOn <- MCRetryOn
  Backoff = {1}
  Compensated = {1}
  Unresolvable = {2}
  Revocable = TRUE
  Faults = TRUE
SYMMETRY MCWorkers
INVARIANTS TypeOK RunAndStepsAgree GateHolds SideEffectsAlone DoubtIsReported
PROPERTIES ImplementsOrderedRun
