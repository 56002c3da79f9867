\* The device reconnects while its previous connection is torn down.
SPECIFICATION PlannedSpec
CONSTANTS
  c1 = c1
  c2 = c2
  d1 = d1
  d2 = d2
  Conns = {c1, c2}
  Calls = {d1, d2}
  Prefix <- SamePrefix
  SendCap = 2
  ChanCap = 1
  Admin = {"revoke", "shutdown"}
  None = None
  Plans <- MCReconnectPlans
INVARIANT SuccessorKeepsState
