CONSTANTS
  Streams = {s1, s2}
  ReplayCap = 2
  ChanCap = 1
  Refreshers = {g1, g2}
  NoRefresher = NoRefresher
  Calls = {c1, c2}
  j1 = j1
  j2 = j2
  Jobs = {j1, j2}
  None = None
  Plans <- MCPlans
  URIs <- MCURIs
SPECIFICATION Spec
INVARIANTS TypeOK OnlyStraysAreMissed NoDeadRefresher OneWatchInTime NoLeakedCancel
PROPERTIES SettledStays JobsSettle AbandonedSessionDrains
CHECK_DEADLOCK FALSE
