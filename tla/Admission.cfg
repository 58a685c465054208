SPECIFICATION AdmissionSpec
CONSTANTS
  Client = {c1, c2, c3}
  Rate = 2
  Capacity = 3
  MaxTries = 1
  Window = 2
  Key = {k1, k2, k3}
  Value = {v1, v2}
  None = None
  TTL = 1
  MaxEntries = 2
  Policies = {"lru", "ttl", "fifo"}
INVARIANTS BucketTypeOK RateBound CacheTypeOK HitIsFresh
PROPERTIES Served EvictsInOrder
