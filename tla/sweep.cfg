\* Both loops over both stores, with two steps of others.
SPECIFICATION Spec
CONSTANTS
  Keys = {1, 2, 3, 4}
  Match = {1, 2, 4}
  Buckets = 3
  BucketOf <- MCBucketOf
  Batch = 2
  Limit = 4
  MaxOthers = 2
INVARIANTS TypeOK DeletesAll CollectsAll OffsetExact CountSound
PROPERTIES SweepEnds
CHECK_DEADLOCK FALSE
