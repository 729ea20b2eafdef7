\* The key explorer with two keys: three acts of the user, others or failures.
SPECIFICATION BrowserSpec
CONSTANTS
  k1 = k1
  k2 = k2
  Null = Null
  Failed = Failed
  Absent = Absent
  Names = {k1, k2}
  JsonKeys = {k1}
  Patterns <- MCPatterns
  Servers <- MCServers
  MaxCalls = 2
  MaxActs = 3
INVARIANTS BrowserTypeOK EditorBelongs CalmPane SpinnerHasCause
PROPERTIES AnswersRunOut
CHECK_DEADLOCK FALSE
