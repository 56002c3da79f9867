\* A client resumes before the server has noticed that its stream is gone.
CONSTANTS
  Streams = {s1, s2}
  ReplayCap = 2
  ChanCap = 1
  Refreshers = {g1, g2}
  NoRefresher = NoRefresher
  Calls = {c1, c2}
  j1 = j1
  j2 = j2
  Jobs = {j1, j2}
  None = None
  Plans <- MCResumePlans
  URIs <- MCURIs
SPECIFICATION Spec
INVARIANT ResumeLosesNothing
CHECK_DEADLOCK FALSE
