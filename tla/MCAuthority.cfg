SPECIFICATION Spec
CONSTANTS
    b1 = b1  b2 = b2  s1 = s1  s2 = s2  c1 = c1  c2 = c2  r1 = r1  r2 = r2
    l1 = l1  l2 = l2  e1 = e1  p1 = p1  t1 = t1  k1 = k1
    Null = Null
    States = {s1}
    Caches = {c1}
    Entries = {e1}
    Replicas = {r1}
    Locations = {l1}
    Boots = {b1, b2}
    Leases = {k1}
    Payloads = {p1}
    TombstoneIds = {t1}
    Subjects = {s1, l1}
    Epochs = {1}
    Fences = {0, 1}
    RecordInputs <- EvidenceRecords
    CacheInputs <- DisputedCaches
    LocationInputs <- DisputedLocations
    ReplicaInputs <- ContendedReplicas
    LeaseInputs <- ContendedLeases
    TombstoneInputs <- EvidenceTombstones
    HealthInputs = {"DEGRADED"}
    FreshnessInputs = {"STALE"}
    ReachabilityInputs = {"REACHABLE", "UNREACHABLE"}
    IntegrityInputs = {"CORRUPT"}
    LifecycleInputs = {"SUPERSEDED"}
    CacheHealthInputs <- ContendedCacheHealth
    CapacityInputs = {1}
    InvalidateKinds = {"WORKER_BOOT", "LOCATION", "CACHE"}
    MaxRecords = 1
    MaxTombstones = 1
    MaxLeaseGeneration = 1
CONSTRAINT
    EvidenceOrContention
INVARIANTS
    BuriedNeverCurrent
    RecordsAreOwned
    StateIndexAgrees
    CountsExact
    GaugesLagOnRetired
PROPERTIES
    HistoryIsAppendOnly
    AuthorityIsFenced
