\* One dispatch, two connections: the flush of the second one fails.
SPECIFICATION Spec
CONSTANTS
  Dispatches = {d1}
  NFrames = 1
  MaxConn = 2
  MaxEnvelopes = 1
  MaxFrames = 1
INVARIANT
  OutcomeAccounted
