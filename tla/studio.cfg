\* The shell, the palette and the profiles with two requests at the server.
SPECIFICATION StudioSpec
CONSTANTS
  p1 = p1
  p2 = p2
  Null = Null
  Failed = Failed
  MaxCalls = 3
  MaxActs = 4
  Handlers = {h1, h2}
  Nobody = Nobody
  Lists <- MCLists
  Defaults <- MCDefaults
  NoFile = NoFile
  Torn = Torn
  Error = Error
  ProfileIds = {p1, p2}
  Matching <- MCMatching
INVARIANTS StudioTypeOK LoadsAreWhole PaletteCursor CalmStore
CHECK_DEADLOCK FALSE
