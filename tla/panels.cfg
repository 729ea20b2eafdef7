\* Each panel by itself, mounted and left at any moment.
SPECIFICATION PanelsSpec
CONSTANTS
  c1 = c1
  c2 = c2
  s1 = s1
  s2 = s2
  g1 = g1
  g2 = g2
  w1 = w1
  w2 = w2
  Null = Null
  Failed = Failed
  MaxCalls = 3
  MaxActs = 5
  Namespaces = {n1, n2}
  Remedies = {i1, i2}
  Durations = {3, 5}
  Limits = {200, 500}
  ClusterKeys = {q1, q2}
  ClientIds = {c1, c2}
  StartSessions <- MCSessions
  Own = c1
  Demo = FALSE
  StreamKeys = {s1, s2, s3}
  Groups <- MCGroups
  Words = {w1, w2}
  Matches <- MCMatches
  Chips <- MCChips
INVARIANTS PanelsTypeOK IndicatorsTrue KillMessageTrue CalmInspector CursorsInRange SuggestionsFit
PROPERTIES AnswersAreFresh GoneClientsLeave
CHECK_DEADLOCK FALSE
