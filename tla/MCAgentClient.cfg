\* Two dispatches of one frame each, two connections, buffers of one item.
SPECIFICATION FairSpec
CONSTANTS
  Dispatches = {d1, d2}
  NFrames = 1
  MaxConn = 2
  MaxEnvelopes = 1
  MaxFrames = 1
INVARIANTS
  TypeOK
  HandedOnce
  AttachedIsCurrent
  InFlightRuns
PROPERTY
  DispatchEnds
