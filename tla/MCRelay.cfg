SPECIFICATION Spec
CONSTANTS
  r1 = r1
  r2 = r2
  Replicas <- MCReplicas
  Home <- MCHome
  Calls = {c1}
  None = None
  TTL = 2
  Cap = 1
  MaxConnects = 2
  MaxCrashes = 1
INVARIANT TypeOK
PROPERTIES ImplementsContract CancelledReturns UnansweredReturns CancelEndsRelayed StaleRecordExpires
CHECK_DEADLOCK FALSE
