\* Two streams that share one mark.
SPECIFICATION Spec
CONSTANTS
  s1 = s1
  s2 = s2
  Nobody = Nobody
  Streams = {s1, s2}
  Window = 1
  MaxLen = 2
  MaxId = 2
  MaxRuns = 1
  MaxFails = 1
PROPERTIES Broadcast
