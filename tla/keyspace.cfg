\* Every command on two keys while four ticks go by.
SPECIFICATION Spec
CONSTANTS
  k1 = k1
  k2 = k2
  va = va
  vb = vb
  f1 = f1
  Absent = Absent
  Never = Never
  Keys = {k1, k2}
  Vals = {va, vb}
  Fields = {f1}
  TicksPerMs = 2
  MsPerSec = 1
  Secs <- MCSecs
  Millis <- MCMillis
  Seeds <- MCSeeds
  MaxNow = 4
INVARIANTS TypeOK LeaseHonoured
PROPERTIES ReadOnlyFrozen NoResurrection
CHECK_DEADLOCK FALSE
