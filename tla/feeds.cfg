\* The dashboard with three points and two slow entries, the console with two
\* messages on two channels and two streams at the server.
SPECIFICATION FeedsSpec
CONSTANTS
  c1 = c1
  c2 = c2
  None = None
  Ring = 3
  Cap = 2
  SlowCap = 1
  Checked = 2
  MaxPoint = 3
  MaxSlow = 2
  MaxWire = 3
  MaxTrouble = 1
  Slots = {s1, s2}
  NoSlot = NoSlot
  Channels = {c1, c2}
  Topics <- MCTopics
  Buffer = 1
  Kept = 1
  MaxMessage = 2
  MaxMoves = 2
INVARIANTS FeedsTypeOK
PROPERTIES ShownOnce SubscriberEnds DashboardCatchesUp
CHECK_DEADLOCK FALSE
