\* DeleteByPattern over the engine's cursor.
SPECIFICATION Spec
CONSTANTS
  Keys = {1, 2, 3, 4}
  Match = {1, 2, 4}
  Buckets = 3
  BucketOf <- MCBucketOf
  Batch = 2
  Limit = 4
  MaxOthers = 2
INVARIANTS EngineDeletesAll
CHECK_DEADLOCK FALSE
