SPECIFICATION Spec
CONSTANTS
  Keys = {k1}
  NoKey = NoKey
  plain = plain
  risky = risky
  banned = banned
  Actions = {plain, risky, banned}
  NoAction = NoAction
  Gateways = {g1}
  Windows = {w1}
  NoHost = NoHost
  Executors = {g1, w1}
  Risk <- MCRisk
  DeclaredRole <- MCRole
  Denied = {banned}
  Ttl = 2
  BusyTimeout = 1
  MaxTime = 4
  Faults = TRUE
INVARIANTS TypeOK ProtocolInv AtMostOnce ConsentIsSufficient AuditTrailOrdered
  CompletedWasPerformed ExclusiveExecution
PROPERTIES SpentInTime ImplementsOneShotConsent
