\* One request against a single command and the clock.
SPECIFICATION FairExplorerSpec
CONSTANTS
  k1 = k1
  k2 = k2
  va = va
  vb = vb
  f1 = f1
  f2 = f2
  Absent = Absent
  Never = Never
  Nobody = Nobody
  Keys = {k1, k2}
  Vals = {va, vb, nil}
  Fields = {f1, f2}
  NilText = nil
  Reqs = {r1}
  TicksPerMs = 2
  MsPerSec = 1
  Secs <- MCSecs
  Millis <- MCMillis
  Seeds <- MCSeeds
  MaxNow = 3
  MaxWrites = 1
INVARIANTS ExplorerTypeOK ClonePayload CloneExpiry
PROPERTIES ReadOnlyFrozen EveryRequestEnds
CHECK_DEADLOCK FALSE
