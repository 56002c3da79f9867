\* Two pairing attempts, two operator requests, one restart.
SPECIFICATION FairSpec
CONSTANTS
  Conns = {p1, p2}
  Requests = {a1, a2}
  MaxRestarts = 1
  NoCode = NoCode
INVARIANTS
  TypeOK
  RejectedHasNoDevice
  OneVerdict
  WaiterIsWaiting
PROPERTIES
  TokenSurvives
  WaitEnds
